---------------------------- MODULE Spec2Model ----------------------------
(***************************************************************************)
(* ThinkBank Go backend: the ingestion pipeline (Upload, the Redis task    *)
(* queue, DeleteAsset) and the hybrid retrieval engine (Search, Chat).     *)
(*                                                                         *)
(* Text is modelled as a sequence of one-character strings, so that        *)
(* prefix, substring and normalisation are computed as the code computes   *)
(* them.  Scores are exact rationals <<numerator, denominator>> until the  *)
(* code rounds them to three decimals; a rounded score is kept as an       *)
(* integer number of thousandths.  Time is counted in whole hours.         *)
(***************************************************************************)
EXTENDS Integers, Sequences, FiniteSets, TLC

VARIABLES
    reqs,        \* Upload requests in flight: handler position, locals, response
    issued,      \* the identifiers uuid.New() has generated
    objects,     \* MinIO: the set of stored object names
    removed,     \* history: object names RemoveObject has removed
    assets,      \* PostgreSQL table assets: id -> row
    tasks,       \* PostgreSQL table processing_tasks: sequence of rows
    embeddings,  \* PostgreSQL table asset_embeddings: asset id -> cosine distance
    queue,       \* Redis list thinkbank:tasks, head first
    pushed,      \* history: identifiers in the order LPUSH accepted them
    popped,      \* history: identifiers in the order BRPOP delivered them
    del,         \* the DeleteAsset request in flight
    now,         \* wall clock, hours
    out          \* the last response of Search or Chat

vars == <<reqs, issued, objects, removed, assets, tasks, embeddings, queue,
          pushed, popped, del, now, out>>

---------------------------------------------------------------------------
(* Bounds of the model *)

\* number of Upload requests that may run concurrently
MaxUploads == 2

\* number of DeleteAsset requests a behaviour makes, one after the other
MaxDeletes == 1

\* number of asset rows in the tables a search runs against
MaxAssets == 4

\* rows the candidate fetch returns at most: the code's Limit(500), scaled
\* to tables of MaxAssets rows so that the cut is reached
CandidateLimit == 2

\* rows the vector query returns at most: the code's limit of 100, scaled
\* likewise
VectorLimit == 2

\* hours the clock advances between a request and its repetition
MaxTicks == 1

\* the number of turns of a chat history
MaxHistory == 2

---------------------------------------------------------------------------
(* Text *)

\* strings.HasPrefix(s, prefix)
HasPrefix(s, prefix) ==
    /\ Len(prefix) <= Len(s)
    /\ SubSeq(s, 1, Len(prefix)) = prefix

McImageJpeg == <<"i", "m", "a", "g", "e", "/", "j", "p", "e", "g">>
McImagePng == <<"i", "m", "a", "g", "e", "/", "p", "n", "g">>
McImageGif == <<"i", "m", "a", "g", "e", "/", "g", "i", "f">>
McImageWebp == <<"i", "m", "a", "g", "e", "/", "w", "e", "b", "p">>
McApplicationPdf == <<"a", "p", "p", "l", "i", "c", "a", "t", "i", "o", "n", "/", "p", "d", "f">>
McTextPlain == <<"t", "e", "x", "t", "/", "p", "l", "a", "i", "n">>
McApplicationJson == <<"a", "p", "p", "l", "i", "c", "a", "t", "i", "o", "n", "/", "j", "s", "o", "n">>
McTextMarkdown == <<"t", "e", "x", "t", "/", "m", "a", "r", "k", "d", "o", "w", "n">>

\* Content types a client may declare that are not entries of the allow-list
McVideoMp4 == <<"v", "i", "d", "e", "o", "/", "m", "p", "4">>
McExecutable == <<"a", "p", "p", "l", "i", "c", "a", "t", "i", "o", "n", "/", "x", "-", "e", "x", "e", "c", "u", "t", "a", "b", "l", "e">>
McTextPlainUtf8 == <<"t", "e", "x", "t", "/", "p", "l", "a", "i", "n", ";", " ", "c", "h", "a", "r", "s", "e", "t", "=", "u", "t", "f", "-", "8">>
McImagePn == <<"i", "m", "a", "g", "e", "/", "p", "n">>
McEmpty == <<>>

\* isValidFileType: the allow-list, in the order the code lists it
validTypes ==
    << McImageJpeg, McImagePng, McImageGif, McImageWebp, McApplicationPdf,
       McTextPlain, McApplicationJson, McTextMarkdown >>

\* isValidFileType accepting a content type that is a prefix of an entry
\* (arguments of HasPrefix swapped)
isValidFileTypeSwapped(contentType) ==
    \E i \in 1..Len(validTypes) : HasPrefix(validTypes[i], contentType)

\* the loop of isValidFileType from entry i on
RECURSIVE validFrom(_, _)
validFrom(contentType, i) ==
    IF i > Len(validTypes) THEN FALSE
    ELSE IF HasPrefix(contentType, validTypes[i]) THEN TRUE
    ELSE validFrom(contentType, i + 1)

isValidFileType(contentType) == validFrom(contentType, 1)

---------------------------------------------------------------------------
(* Error values of package errno: the code field of each *)

ErrRedis == 10003
ErrMinIO == 10004
ErrDB == 10002
ErrFileUpload == 10005
ErrAssetNotFound == 20001
ErrInvalidFileType == 20002
ErrFileTooLarge == 20003

\* the size ceiling of Upload, bytes
MaxFileSize == 100 * 1024 * 1024

\* the size check with the ceiling written in the wrong unit: 1 GiB
exceedsCeilingGiB(size) == size > 1024 * 1024 * 1024

\* Upload, line 65: file.Size > 100*1024*1024
exceedsCeiling(size) == size > MaxFileSize

StatusPending == "PENDING"
StatusProcessing == "PROCESSING"
StatusCompleted == "COMPLETED"
StatusFailed == "FAILED"
StageQueued == "QUEUED"
StageProcessing == "PROCESSING"
StageCompleted == "COMPLETED"
StageFailed == "FAILED"

Statuses == {StatusPending, StatusProcessing, StatusCompleted, StatusFailed}

---------------------------------------------------------------------------
(* Upload: one request is a process that runs the handler from one call of *)
(* a store to the next; requests interleave at those calls.                *)

Reqs == 1..MaxUploads

PngExt == <<".", "p", "n", "g">>
BinExt == <<".", "b", "i", "n">>

\* Multipart files a client may send: size in bytes, declared Content-Type,
\* extension of the client's file name (empty when it has none)
UploadInputs ==
    { [size |-> MaxFileSize,       mime |-> McImagePng, ext |-> PngExt],
      [size |-> MaxFileSize + 1,   mime |-> McImagePng, ext |-> PngExt],
      [size |-> 150 * 1024 * 1024, mime |-> McVideoMp4, ext |-> <<>>],
      [size |-> 1,                 mime |-> McVideoMp4, ext |-> <<>>] }

\* locals of a handler that hold nothing yet
NoFile == [size |-> -1, mime |-> <<>>, ext |-> <<>>]
NoPath == [id |-> 0, ext |-> <<>>]
NoResp == [http |-> 0, code |-> 0, assetID |-> 0]

IdleReq ==
    [pc |-> "idle", file |-> NoFile, id |-> 0, objectPath |-> NoPath,
     resp |-> NoResp, calls |-> <<>>]

\* c.JSON(status, errno.X)
ErrResp(http, code) == [http |-> http, code |-> code, assetID |-> 0]

\* c.JSON(consts.StatusOK, UploadResponse{AssetID: ...})
OkResp(id) == [http |-> 200, code |-> 0, assetID |-> id]

\* uuid.New() in request r: a random 122-bit identifier, which no other call
\* returns; the model names it after the request that drew it
NewUUID(r) == r

\* minio.UploadFile: the object path is the object name plus the file's
\* extension, ".bin" when the file name has none (objectName "id/id" never
\* has an extension of its own)
ObjectPathOf(id, ext) == [id |-> id, ext |-> IF ext = <<>> THEN BinExt ELSE ext]

\* a push that is retried although the first attempt was accepted
PushTaskTwice(q, assetID) == <<assetID, assetID>> \o q

\* redis.PushTask: LPUSH puts the identifier at the head of the list
PushTask(q, assetID) == <<assetID>> \o q

\* Upload, lines 56-81: parse the form, validate size and type, generate the id
UploadBeginWith(r, inputs) ==
    /\ reqs[r].pc = "idle"
    /\ \E f \in inputs \cup {NoFile} :
        IF f = NoFile
        THEN /\ reqs' = [reqs EXCEPT ![r] =
                    [@ EXCEPT !.pc = "done", !.resp = ErrResp(400, ErrFileUpload)]]
             /\ UNCHANGED issued
        ELSE IF exceedsCeiling(f.size)
        THEN /\ reqs' = [reqs EXCEPT ![r] =
                    [@ EXCEPT !.pc = "done", !.file = f,
                              !.resp = ErrResp(400, ErrFileTooLarge)]]
             /\ UNCHANGED issued
        ELSE IF ~isValidFileType(f.mime)
        THEN /\ reqs' = [reqs EXCEPT ![r] =
                    [@ EXCEPT !.pc = "done", !.file = f,
                              !.resp = ErrResp(400, ErrInvalidFileType)]]
             /\ UNCHANGED issued
        ELSE /\ reqs' = [reqs EXCEPT ![r] =
                    [@ EXCEPT !.pc = "put", !.file = f, !.id = NewUUID(r)]]
             /\ issued' = issued \cup {NewUUID(r)}
    /\ UNCHANGED <<objects, removed, assets, tasks, embeddings, queue, pushed,
                   popped, del, now, out>>

UploadBegin(r) == UploadBeginWith(r, UploadInputs)

\* Upload, lines 83-89: minio.UploadFile
UploadStore(r) ==
    /\ reqs[r].pc = "put"
    /\ \E ok \in BOOLEAN :
        LET path == ObjectPathOf(reqs[r].id, reqs[r].file.ext) IN
        IF ok
        THEN /\ objects' = objects \cup {path}
             /\ reqs' = [reqs EXCEPT ![r] =
                    [@ EXCEPT !.pc = "insAsset", !.objectPath = path,
                              !.calls = Append(@, "put")]]
        ELSE /\ UNCHANGED objects
             /\ reqs' = [reqs EXCEPT ![r] =
                    [@ EXCEPT !.pc = "done", !.resp = ErrResp(500, ErrMinIO),
                              !.calls = Append(@, "put")]]
    /\ UNCHANGED <<issued, removed, assets, tasks, embeddings, queue, pushed,
                   popped, del, now, out>>

\* model.Asset as Upload fills it; gorm sets created_at (autoCreateTime)
NewAsset(id, path, f) ==
    [id |-> id, objectName |-> path, mime |-> f.mime, size |-> f.size,
     caption |-> <<>>, content |-> <<>>, status |-> StatusPending,
     createdAt |-> now, deleted |-> FALSE]

\* Upload, lines 91-104: postgres.DB.Create(asset)
UploadCreateAsset(r) ==
    /\ reqs[r].pc = "insAsset"
    /\ \E ok \in BOOLEAN :
        IF ok /\ reqs[r].id \notin DOMAIN assets
        THEN /\ assets' = [i \in DOMAIN assets \cup {reqs[r].id} |->
                    IF i = reqs[r].id
                    THEN NewAsset(reqs[r].id, reqs[r].objectPath, reqs[r].file)
                    ELSE assets[i]]
             /\ reqs' = [reqs EXCEPT ![r] =
                    [@ EXCEPT !.pc = "insTask", !.calls = Append(@, "asset")]]
        ELSE /\ UNCHANGED assets
             /\ reqs' = [reqs EXCEPT ![r] =
                    [@ EXCEPT !.pc = "done", !.resp = ErrResp(500, ErrDB),
                              !.calls = Append(@, "asset")]]
    /\ UNCHANGED <<issued, objects, removed, tasks, embeddings, queue, pushed, popped,
                   del, now, out>>

\* model.ProcessingTask as Upload fills it
NewTask(id) == [assetID |-> id, status |-> StatusPending, stage |-> StageQueued]

\* the task insert with its error ignored: the handler goes on to the push
UploadCreateTaskIgnoreErr(r) ==
    /\ reqs[r].pc = "insTask"
    /\ \E ok \in BOOLEAN :
        /\ tasks' = IF ok THEN Append(tasks, NewTask(reqs[r].id)) ELSE tasks
        /\ reqs' = [reqs EXCEPT ![r] =
                [@ EXCEPT !.pc = "push", !.calls = Append(@, "task")]]
    /\ UNCHANGED <<issued, objects, removed, assets, embeddings, queue, pushed,
                   popped, del, now, out>>

\* Upload, lines 106-115: postgres.DB.Create(task)
UploadCreateTask(r) ==
    /\ reqs[r].pc = "insTask"
    /\ \E ok \in BOOLEAN :
        IF ok
        THEN /\ tasks' = Append(tasks, NewTask(reqs[r].id))
             /\ reqs' = [reqs EXCEPT ![r] =
                    [@ EXCEPT !.pc = "push", !.calls = Append(@, "task")]]
        ELSE /\ UNCHANGED tasks
             /\ reqs' = [reqs EXCEPT ![r] =
                    [@ EXCEPT !.pc = "done", !.resp = ErrResp(500, ErrDB),
                              !.calls = Append(@, "task")]]
    /\ UNCHANGED <<issued, objects, removed, assets, embeddings, queue, pushed, popped,
                   del, now, out>>

\* the rows of ts that do not belong to asset id
WithoutTasksOf(ts, id) ==
    LET keep == {i \in 1..Len(ts) : ts[i].assetID /= id}
        RECURSIVE pick(_)
        pick(i) == IF i > Len(ts) THEN << >>
                   ELSE IF i \in keep THEN <<ts[i]>> \o pick(i + 1)
                   ELSE pick(i + 1)
    IN pick(1)

\* the push with a compensating rollback: a failed push deletes the task row
UploadPushTaskRollback(r) ==
    /\ reqs[r].pc = "push"
    /\ \E ok \in BOOLEAN :
        IF ok
        THEN /\ queue' = PushTask(queue, reqs[r].id)
             /\ pushed' = Append(pushed, reqs[r].id)
             /\ reqs' = [reqs EXCEPT ![r] =
                    [@ EXCEPT !.pc = "done", !.resp = OkResp(reqs[r].id),
                              !.calls = Append(@, "push")]]
             /\ UNCHANGED tasks
        ELSE /\ UNCHANGED <<queue, pushed>>
             /\ tasks' = WithoutTasksOf(tasks, reqs[r].id)
             /\ reqs' = [reqs EXCEPT ![r] =
                    [@ EXCEPT !.pc = "done", !.resp = ErrResp(500, ErrRedis),
                              !.calls = Append(@, "push")]]
    /\ UNCHANGED <<issued, objects, removed, assets, embeddings, popped, del,
                   now, out>>

\* Upload, lines 117-127: redis.PushTask, then the success response
UploadPushTask(r) ==
    /\ reqs[r].pc = "push"
    /\ \E ok \in BOOLEAN :
        IF ok
        THEN /\ queue' = PushTask(queue, reqs[r].id)
             /\ pushed' = Append(pushed, reqs[r].id)
             /\ reqs' = [reqs EXCEPT ![r] =
                    [@ EXCEPT !.pc = "done", !.resp = OkResp(reqs[r].id),
                              !.calls = Append(@, "push")]]
        ELSE /\ UNCHANGED <<queue, pushed>>
             /\ reqs' = [reqs EXCEPT ![r] =
                    [@ EXCEPT !.pc = "done", !.resp = ErrResp(500, ErrRedis),
                              !.calls = Append(@, "push")]]
    /\ UNCHANGED <<issued, objects, removed, assets, tasks, embeddings, popped, del,
                   now, out>>

---------------------------------------------------------------------------
(* The task queue's consumer side *)

\* LPOP in place of BRPOP: the element at the head of the list
HeadOf(q) == q[1]

\* BRPOP takes the element at the tail of the list
TailOf(q) == q[Len(q)]
FrontOf(q) == SubSeq(q, 1, Len(q) - 1)

\* redis.PopTask: blocks while the list is empty, then returns the tail
PopTask ==
    /\ queue /= << >>
    /\ queue' = FrontOf(queue)
    /\ popped' = Append(popped, TailOf(queue))
    /\ UNCHANGED <<reqs, issued, objects, removed, assets, tasks, embeddings, pushed,
                   del, now, out>>

---------------------------------------------------------------------------
(* The processing worker (a separate Python service): it takes a delivered *)
(* identifier, marks the asset PROCESSING and ends it COMPLETED, with      *)
(* caption, content and an embedding row, or FAILED.                       *)

WorkerCaption == <<"c", "a", "t">>
WorkerContent == <<"a", " ", "c", "a", "t">>

\* cosine distance of the vector the worker stores to the query vector,
\* thousandths
WorkerDistances == {400}

InSeq(x, q) == \E i \in 1..Len(q) : q[i] = x

SetStage(ts, id, status, stage) ==
    [i \in 1..Len(ts) |->
        IF ts[i].assetID = id
        THEN [ts[i] EXCEPT !.status = status, !.stage = stage]
        ELSE ts[i]]

WorkerStart(id) ==
    /\ InSeq(id, popped)
    /\ id \in DOMAIN assets
    /\ assets[id].status = StatusPending
    /\ assets' = [assets EXCEPT ![id].status = StatusProcessing]
    /\ tasks' = SetStage(tasks, id, StatusProcessing, StageProcessing)
    /\ UNCHANGED <<reqs, issued, objects, removed, embeddings, queue, pushed, popped,
                   del, now, out>>

WorkerFinish(id) ==
    /\ id \in DOMAIN assets
    /\ assets[id].status = StatusProcessing
    /\ \/ /\ assets' = [assets EXCEPT ![id].status = StatusCompleted,
                                      ![id].caption = WorkerCaption,
                                      ![id].content = WorkerContent]
          /\ tasks' = SetStage(tasks, id, StatusCompleted, StageCompleted)
          /\ \E d \in WorkerDistances :
                embeddings' = [i \in DOMAIN embeddings \cup {id} |->
                                  IF i = id THEN d ELSE embeddings[i]]
       \/ /\ assets' = [assets EXCEPT ![id].status = StatusFailed]
          /\ tasks' = SetStage(tasks, id, StatusFailed, StageFailed)
          /\ UNCHANGED embeddings
    /\ UNCHANGED <<reqs, issued, objects, removed, queue, pushed, popped, del, now, out>>

---------------------------------------------------------------------------
(* DeleteAsset: one request at a time, interleaved with everything else *)

IdleDel ==
    [pc |-> "idle", id |-> 0, objectName |-> NoPath, resp |-> NoResp, n |-> 0]

\* a lookup that also finds rows that are soft-deleted
VisibleAnyRow(id) == id \in DOMAIN assets

\* gorm scopes every query on model.Asset with deleted_at IS NULL
Visible(id) == id \in DOMAIN assets /\ ~assets[id].deleted

\* identifiers a client may ask for: those the uploads draw, whether or not
\* the asset row exists yet
KnownIds == Reqs

\* DeleteAsset, lines 211-218: look the asset up
DeleteLookup(id) ==
    /\ IF Visible(id)
       THEN del' = [pc |-> "remove", id |-> id,
                    objectName |-> assets[id].objectName, resp |-> NoResp,
                    n |-> del.n + 1]
       ELSE del' = [pc |-> "done", id |-> id, objectName |-> NoPath,
                    resp |-> ErrResp(404, ErrAssetNotFound), n |-> del.n + 1]
    /\ UNCHANGED <<reqs, issued, objects, removed, assets, tasks, embeddings, queue,
                   pushed, popped, now, out>>

\* a request to DeleteAsset arrives when none is in progress
DeleteBegin(id) ==
    /\ del.pc \in {"idle", "done"}
    /\ del.n < MaxDeletes
    /\ DeleteLookup(id)

\* minio.DeleteFile whose error is ignored: the row delete follows
DeleteObjectIgnoreErr ==
    /\ del.pc = "remove"
    /\ \E ok \in BOOLEAN :
        IF ok
        THEN /\ objects' = objects \ {del.objectName}
             /\ removed' = removed \cup {del.objectName}
             /\ del' = [del EXCEPT !.pc = "row"]
        ELSE /\ UNCHANGED <<objects, removed>>
             /\ del' = [del EXCEPT !.pc = "row"]
    /\ UNCHANGED <<reqs, issued, assets, tasks, embeddings, queue, pushed,
                   popped, now, out>>

\* DeleteAsset, lines 220-224: minio.DeleteFile
DeleteObject ==
    /\ del.pc = "remove"
    /\ \E ok \in BOOLEAN :
        IF ok
        THEN /\ objects' = objects \ {del.objectName}
             /\ removed' = removed \cup {del.objectName}
             /\ del' = [del EXCEPT !.pc = "row"]
        ELSE /\ UNCHANGED <<objects, removed>>
             /\ del' = [del EXCEPT !.pc = "done", !.resp = ErrResp(500, ErrMinIO)]
    /\ UNCHANGED <<reqs, issued, assets, tasks, embeddings, queue, pushed,
                   popped, now, out>>

\* a delete that also overwrites the processing status
SoftDeleteMarkStatus(rows, id) ==
    IF id \in DOMAIN rows
    THEN [rows EXCEPT ![id].deleted = TRUE, ![id].status = "DELETED"]
    ELSE rows

\* gorm's Delete on a model with a DeletedAt field: UPDATE assets SET
\* deleted_at = now WHERE id = ? AND deleted_at IS NULL; the row stays
SoftDelete(rows, id) ==
    IF id \in DOMAIN rows THEN [rows EXCEPT ![id].deleted = TRUE] ELSE rows

\* a row delete that also takes the identifier off the queue
DeleteRowPurgeQueue ==
    /\ del.pc = "row"
    /\ \E ok \in BOOLEAN :
        IF ok
        THEN /\ assets' = SoftDelete(assets, del.id)
             /\ queue' = SelectSeq(queue, LAMBDA x : x /= del.id)
             /\ del' = [del EXCEPT !.pc = "done",
                                   !.resp = [http |-> 200, code |-> 0, assetID |-> del.id]]
        ELSE /\ UNCHANGED <<assets, queue>>
             /\ del' = [del EXCEPT !.pc = "done", !.resp = ErrResp(500, ErrDB)]
    /\ UNCHANGED <<reqs, issued, objects, removed, tasks, embeddings, pushed,
                   popped, now, out>>

\* DeleteAsset, lines 226-232: postgres.DB.Delete(&asset), then the response
DeleteRow ==
    /\ del.pc = "row"
    /\ \E ok \in BOOLEAN :
        IF ok
        THEN /\ assets' = SoftDelete(assets, del.id)
             /\ del' = [del EXCEPT !.pc = "done",
                                   !.resp = [http |-> 200, code |-> 0, assetID |-> del.id]]
        ELSE /\ UNCHANGED assets
             /\ del' = [del EXCEPT !.pc = "done", !.resp = ErrResp(500, ErrDB)]
    /\ UNCHANGED <<reqs, issued, objects, removed, tasks, embeddings, queue, pushed,
                   popped, now, out>>

---------------------------------------------------------------------------
\* what the stores and providers answer during a request, when none was made
NoEnv == [dbOk |-> TRUE, embed |-> TRUE, vecOk |-> TRUE, tie |-> "asc", urlFail |-> {}]

\* no error text
NoMessage == [what |-> "none", status |-> 0, body |-> << >>]

\* no answer of the LLM provider
NoLlm == [net |-> FALSE, status |-> 0, text |-> << >>, json |-> FALSE,
          choices |-> << >>]

\* c.JSON of Search and of Chat: the names of the fields of the body, which
\* is SearchResponse or ChatResponse with status 200 and
\* map[string]string{"message": ...} with every other status
BodyFields(op, http) ==
    IF http /= 200 THEN {"message"}
    ELSE IF op = "chat" THEN {"answer", "sources"}
    ELSE {"query", "total", "results"}

\* no earlier response of the same request
NoFirst == [at |-> 0, tie |-> "asc", results |-> << >>]

\* The record of a request to Search or Chat: what was asked (query, limit,
\* threshold after the defaults), when (at), what the stores and providers
\* answered (env), the limit in force (effLimit), the calls made to stores
\* and providers in order (calls), and the response: status (http), results
\* or sources, answer, error text (message).  history is the history of a
\* Chat request, llm what the LLM provider answers, messages the message
\* list sent to it; first is the response of the same request made earlier,
\* when it is repeated.  fields are the names of the fields of the JSON body
\* of the response.
BaseOut(op, http, query, limit, threshold, env) ==
    [op |-> op, http |-> http, fields |-> BodyFields(op, http),
     query |-> query, limit |-> limit,
     threshold |-> threshold, at |-> now, env |-> env, effLimit |-> 0,
     calls |-> << >>, results |-> << >>, answer |-> << >>,
     message |-> NoMessage, history |-> << >>, llm |-> NoLlm,
     messages |-> << >>, first |-> NoFirst]

\* no response of Search or Chat yet
NoOut ==
    [op |-> "none", http |-> 0, fields |-> {}, query |-> << >>, limit |-> 0,
     threshold |-> 0, at |-> 0, env |-> NoEnv, effLimit |-> 0,
     calls |-> << >>, results |-> << >>, answer |-> << >>,
     message |-> NoMessage, history |-> << >>, llm |-> NoLlm,
     messages |-> << >>, first |-> NoFirst]

Init ==
    /\ reqs = [r \in Reqs |-> IdleReq]
    /\ issued = {}
    /\ objects = {}
    /\ removed = {}
    /\ assets = << >>
    /\ tasks = << >>
    /\ embeddings = << >>
    /\ queue = << >>
    /\ pushed = << >>
    /\ popped = << >>
    /\ del = IdleDel
    /\ now = 0
    /\ out = NoOut

Next ==
    \/ \E r \in Reqs : UploadBegin(r)
    \/ \E r \in Reqs : UploadStore(r)
    \/ \E r \in Reqs : UploadCreateAsset(r)
    \/ \E r \in Reqs : UploadCreateTask(r)
    \/ \E r \in Reqs : UploadPushTask(r)
    \/ PopTask
    \/ \E id \in DOMAIN assets : WorkerStart(id)
    \/ \E id \in DOMAIN assets : WorkerFinish(id)
    \/ \E id \in KnownIds : DeleteBegin(id)
    \/ DeleteObject
    \/ DeleteRow

Spec == Init /\ [][Next]_vars

---------------------------------------------------------------------------
(* Arithmetic of scores: exact rationals <<n, d>> with d > 0, in lowest     *)
(* terms.  The code computes in float64; the model computes the same        *)
(* expressions without rounding error.                                      *)

Abs(x) == IF x < 0 THEN -x ELSE x

RECURSIVE GCD(_, _)
GCD(a, b) == IF b = 0 THEN a ELSE GCD(b, a % b)

Rat(n, d) == LET g == GCD(Abs(n), d) IN <<n \div g, d \div g>>
RAdd(a, b) == Rat(a[1] * b[2] + b[1] * a[2], a[2] * b[2])
RMul(a, b) == Rat(a[1] * b[1], a[2] * b[2])
RLess(a, b) == a[1] * b[2] < b[1] * a[2]

\* math.Min
RMin(a, b) == IF RLess(b, a) THEN b ELSE a

\* math.Round(x * 1000): the nearest integer, halves away from zero
RoundMilli(x) ==
    LET n == x[1] * 1000
        d == x[2]
    IN IF n >= 0 THEN (2 * n + d) \div (2 * d)
       ELSE -((2 * (-n) + d) \div (2 * d))

---------------------------------------------------------------------------
(* Text of package strings, over the characters the model's texts use *)

LowerChar(c) ==
    CASE c = "A" -> "a"
      [] c = "B" -> "b"
      [] c = "C" -> "c"
      [] c = "D" -> "d"
      [] c = "S" -> "s"
      [] c = "T" -> "t"
      [] OTHER -> c

\* strings.ToLower
ToLower(s) == [i \in 1..Len(s) |-> LowerChar(s[i])]

\* unicode.IsSpace
IsSpace(c) == c \in {" ", "\n", "\t", "\r"}

\* strings.TrimSpace
RECURSIVE TrimLeft(_)
TrimLeft(s) ==
    IF s /= << >> /\ IsSpace(Head(s)) THEN TrimLeft(Tail(s)) ELSE s

RECURSIVE TrimRight(_)
TrimRight(s) ==
    IF s /= << >> /\ IsSpace(s[Len(s)]) THEN TrimRight(SubSeq(s, 1, Len(s) - 1)) ELSE s

TrimSpace(s) == TrimRight(TrimLeft(s))

\* strings.NewReplacer("\n", " ", "\t", " ", "\r", " ").Replace
ReplaceBreaks(s) ==
    [i \in 1..Len(s) |-> IF s[i] \in {"\n", "\t", "\r"} THEN " " ELSE s[i]]

\* strings.Fields: the maximal runs of non-space characters, in order
RECURSIVE FieldsFrom(_, _, _)
FieldsFrom(s, i, cur) ==
    IF i > Len(s)
    THEN IF cur = << >> THEN << >> ELSE <<cur>>
    ELSE IF IsSpace(s[i])
    THEN IF cur = << >> THEN FieldsFrom(s, i + 1, << >>)
         ELSE <<cur>> \o FieldsFrom(s, i + 1, << >>)
    ELSE FieldsFrom(s, i + 1, Append(cur, s[i]))

Fields(s) == FieldsFrom(s, 1, << >>)

\* strings.Join
RECURSIVE Join(_, _)
Join(parts, sep) ==
    IF parts = << >> THEN << >>
    ELSE IF Len(parts) = 1 THEN parts[1]
    ELSE parts[1] \o sep \o Join(Tail(parts), sep)

\* normalizeSearchText
normalizeSearchText(input) ==
    Join(Fields(ReplaceBreaks(TrimSpace(ToLower(input)))), <<" ">>)

\* strings.Contains
Contains(s, sub) ==
    \E i \in 0..(Len(s) - Len(sub)) : SubSeq(s, i + 1, i + Len(sub)) = sub

\* strings.ContainsRune
ContainsRune(s, r) == \E i \in 1..Len(s) : s[i] = r

\* uniqueRunes: the distinct characters other than the space, in order of
\* first occurrence
RECURSIVE uniqueFrom(_, _, _)
uniqueFrom(input, i, acc) ==
    IF i > Len(input) THEN acc
    ELSE IF input[i] = " " \/ ContainsRune(acc, input[i])
    THEN uniqueFrom(input, i + 1, acc)
    ELSE uniqueFrom(input, i + 1, Append(acc, input[i]))

uniqueRunes(input) == uniqueFrom(input, 1, << >>)

---------------------------------------------------------------------------
(* Hybrid retrieval: retrieveAssetsForQuery and its helpers.  What the     *)
(* stores and providers answer during one call is the record env:          *)
(*   dbOk     the candidate fetch succeeds                                  *)
(*   embed    the embedding provider returns a vector                       *)
(*   vecOk    the vector query succeeds                                     *)
(*   tie      how PostgreSQL and sort.Slice order rows their ordering       *)
(*            leaves equal ("asc" or "desc" by identifier)                  *)
(*   urlFail  the assets for which no presigned URL can be minted           *)

\* the elements of S in the order of before, a strict total order on S given
\* as the set of its pairs
Sorted(S, before) ==
    [i \in 1..Cardinality(S) |->
        CHOOSE a \in S : Cardinality({b \in S : <<b, a>> \in before}) = i - 1]

TieBefore(tie, a, b) == IF tie = "asc" THEN a < b ELSE a > b

Min2(a, b) == IF a < b THEN a ELSE b

\* s[1..n], or all of s when it is shorter
Truncate(s, n) == SubSeq(s, 1, Min2(Len(s), n))

\* the candidate fetch without the status filter
FetchAnyStatus(tie) ==
    LET S == {id \in DOMAIN assets : ~assets[id].deleted}
        Before(a, b) ==
            \/ assets[a].createdAt > assets[b].createdAt
            \/ assets[a].createdAt = assets[b].createdAt /\ TieBefore(tie, a, b)
    IN Truncate(Sorted(S, {p \in S \X S : Before(p[1], p[2])}), CandidateLimit)

\* retrieveAssetsForQuery, line 151: Where("processing_status = ?",
\* COMPLETED).Order("created_at DESC").Limit(500), which gorm scopes to
\* rows that are not soft-deleted
FetchCandidates(tie) ==
    LET S == {id \in DOMAIN assets :
                 ~assets[id].deleted /\ assets[id].status = StatusCompleted}
        Before(a, b) ==
            \/ assets[a].createdAt > assets[b].createdAt
            \/ assets[a].createdAt = assets[b].createdAt /\ TieBefore(tie, a, b)
    IN Truncate(Sorted(S, {p \in S \X S : Before(p[1], p[2])}), CandidateLimit)

\* the nearest rows of asset_embeddings among those of assets that are
\* visible and COMPLETED
pgvectorSearchJoined(tie, limit, vecOk) ==
    IF ~vecOk THEN << >>
    ELSE
        LET Before(a, b) ==
                \/ embeddings[a] < embeddings[b]
                \/ embeddings[a] = embeddings[b] /\ TieBefore(tie, a, b)
            E == {id \in DOMAIN embeddings :
                     ~assets[id].deleted /\ assets[id].status = StatusCompleted}
            rows == Truncate(Sorted(E, {p \in E \X E : Before(p[1], p[2])}), limit)
            ids == {rows[i] : i \in 1..Len(rows)}
        IN [id \in ids |->
               IF 1000 - embeddings[id] < 0 THEN 0 ELSE 1000 - embeddings[id]]

\* pgvectorSearch: the nearest rows of asset_embeddings, nearest first; the
\* similarity of each is 1 - distance, floored at 0 (thousandths)
pgvectorSearch(tie, limit, vecOk) ==
    IF ~vecOk THEN << >>
    ELSE
        LET Before(a, b) ==
                \/ embeddings[a] < embeddings[b]
                \/ embeddings[a] = embeddings[b] /\ TieBefore(tie, a, b)
            E == DOMAIN embeddings
            rows == Truncate(Sorted(E, {p \in E \X E : Before(p[1], p[2])}), limit)
            ids == {rows[i] : i \in 1..Len(rows)}
        IN [id \in ids |->
               IF 1000 - embeddings[id] < 0 THEN 0 ELSE 1000 - embeddings[id]]

\* the text of an identifier: one digit per asset
IdDigits == <<"1", "2", "3", "4", "5", "6", "7", "8", "9">>
IdText(id) == <<IdDigits[id]>>

\* filepath.Base(asset.ObjectName): "<uuid><ext>"
FileName(objectName) == IdText(objectName.id) \o objectName.ext

\* the search text joined without the caption
SearchTextNoCaption(a) ==
    normalizeSearchText(
        Join(<<FileName(a.objectName), a.mime, a.content>>, <<" ">>))

\* retrieveAssetsForQuery, lines 173-179
SearchText(a) ==
    normalizeSearchText(
        Join(<<FileName(a.objectName), a.mime, a.caption, a.content>>, <<" ">>))

\* retrieveAssetsForQuery, lines 181-201: the character score of a
\* non-empty query against the search text and the normalised caption
CharScore(searchText, captionText, normalizedQuery, queryRunes) ==
    RAdd(Rat((IF Contains(searchText, normalizedQuery) THEN 2 ELSE 0)
               + (IF Contains(captionText, normalizedQuery) THEN 1 ELSE 0), 1),
         IF Len(queryRunes) > 0
         THEN Rat(Cardinality({i \in 1..Len(queryRunes) :
                                  ContainsRune(searchText, queryRunes[i])}),
                  Len(queryRunes))
         ELSE Rat(0, 1))

\* the character score divided by 3 and not capped
CharScoreNormUncapped(a, normalizedQuery, queryRunes, hasQuery) ==
    RMul(IF ~hasQuery THEN Rat(1, 10)
         ELSE CharScore(SearchText(a), normalizeSearchText(a.caption),
                        normalizedQuery, queryRunes),
         Rat(1, 3))

\* retrieveAssetsForQuery, lines 181-202: the character score, normalised
CharScoreNorm(a, normalizedQuery, queryRunes, hasQuery) ==
    RMin(RMul(IF ~hasQuery THEN Rat(1, 10)
              ELSE CharScore(SearchText(a), normalizeSearchText(a.caption),
                             normalizedQuery, queryRunes),
              Rat(1, 3)),
         Rat(1, 1))

\* retrieveAssetsForQuery, line 205: vectorScores[asset.ID.String()], the
\* zero value when the map has no entry
VecScore(vectorScores, id) ==
    IF id \in DOMAIN vectorScores THEN Rat(vectorScores[id], 1000) ELSE Rat(0, 1)

\* the hybrid blend applied also when there are no vector scores
HybridAlways(hasVectorScores, vecScore, charScoreNorm) ==
    RAdd(RMul(Rat(7, 10), vecScore), RMul(Rat(3, 10), charScoreNorm))

\* the hybrid blend with the two weights exchanged
HybridSwapped(hasVectorScores, vecScore, charScoreNorm) ==
    IF hasVectorScores
    THEN RAdd(RMul(Rat(3, 10), vecScore), RMul(Rat(7, 10), charScoreNorm))
    ELSE charScoreNorm

\* retrieveAssetsForQuery, lines 207-213
Hybrid(hasVectorScores, vecScore, charScoreNorm) ==
    IF hasVectorScores
    THEN RAdd(RMul(Rat(7, 10), vecScore), RMul(Rat(3, 10), charScoreNorm))
    ELSE charScoreNorm

\* time.Since(asset.CreatedAt).Hours() at clock reading at
HoursSince(createdAt, at) == Rat(at - createdAt, 1)

\* the final score without the recency term
FinalScoreNoRecency(a, normalizedQuery, queryRunes, hasQuery, vectorScores, at) ==
    RoundMilli(Hybrid(DOMAIN vectorScores /= {},
                      VecScore(vectorScores, a.id),
                      CharScoreNorm(a, normalizedQuery, queryRunes, hasQuery)))

\* retrieveAssetsForQuery, lines 204-217: hybrid score, recency term,
\* rounding to three decimals (the result in thousandths)
FinalScore(a, normalizedQuery, queryRunes, hasQuery, vectorScores, at) ==
    RoundMilli(
        RAdd(Hybrid(DOMAIN vectorScores /= {},
                    VecScore(vectorScores, a.id),
                    CharScoreNorm(a, normalizedQuery, queryRunes, hasQuery)),
             RMul(Rat(-1, 1000), HoursSince(a.createdAt, at))))

\* the threshold test applied to every query, the empty one included
BelowThresholdAlways(hasQuery, finalScore, threshold) == finalScore < threshold

\* retrieveAssetsForQuery, line 219: hasQuery && finalScore < threshold
BelowThreshold(hasQuery, finalScore, threshold) ==
    hasQuery /\ finalScore < threshold

\* the limit capped at 100, a limit that is not positive left as it is
ClampLimitNoDefault(limit) == IF limit > 100 THEN 100 ELSE limit

\* retrieveAssetsForQuery, lines 142-148
ClampLimit(limit) ==
    IF limit <= 0 THEN 20 ELSE IF limit > 100 THEN 100 ELSE limit

\* the vector scores fetched for every request, the empty query included
VectorScoresAlways(hasQuery, env) ==
    IF env.embed
    THEN pgvectorSearch(env.tie, VectorLimit, env.vecOk)
    ELSE << >>

\* retrieveAssetsForQuery, lines 160-167: the vector scores of a query
VectorScores(hasQuery, env) ==
    IF hasQuery /\ env.embed
    THEN pgvectorSearch(env.tie, VectorLimit, env.vecOk)
    ELSE << >>

\* retrieveAssetsForQuery, lines 172-217: the final score of each candidate
Scored(cands, normalizedQuery, vectorScores, at) ==
    [id \in {cands[i] : i \in 1..Len(cands)} |->
        FinalScore(assets[id], normalizedQuery, uniqueRunes(normalizedQuery),
                   normalizedQuery /= << >>, vectorScores, at)]

\* the candidates kept when the threshold is compared with the score before
\* the recency term is subtracted
KeptBeforeRecency(score, hasQuery, threshold) ==
    {id \in DOMAIN score :
        ~BelowThreshold(hasQuery, score[id] + (now - assets[id].createdAt),
                        threshold)}

\* retrieveAssetsForQuery, lines 219-221: the candidates that are kept
Kept(score, hasQuery, threshold) ==
    {id \in DOMAIN score : ~BelowThreshold(hasQuery, score[id], threshold)}

\* retrieveAssetsForQuery, lines 242-247: the comparison of sort.Slice; the
\* order of results it leaves equal is fixed by tie
RankBefore(score, tie, a, b) ==
    \/ score[a] > score[b]
    \/ /\ score[a] = score[b]
       /\ \/ assets[a].createdAt > assets[b].createdAt
          \/ assets[a].createdAt = assets[b].createdAt /\ TieBefore(tie, a, b)

\* the kept candidates cut to the limit in the order of the fetch, and
\* sorted afterwards
RankedTruncateFirst(kept, score, tie, limit) ==
    LET Newer(a, b) ==
            \/ assets[a].createdAt > assets[b].createdAt
            \/ assets[a].createdAt = assets[b].createdAt /\ TieBefore(tie, a, b)
        first == Truncate(Sorted(kept, {p \in kept \X kept : Newer(p[1], p[2])}),
                          limit)
        cut == {first[i] : i \in 1..Len(first)}
    IN Sorted(cut, {p \in cut \X cut : RankBefore(score, tie, p[1], p[2])})

\* retrieveAssetsForQuery, lines 242-251: sort, then truncate
Ranked(kept, score, tie, limit) ==
    Truncate(Sorted(kept, {p \in kept \X kept : RankBefore(score, tie, p[1], p[2])}),
             limit)

\* previewText
previewText(input, maxLen) ==
    IF TrimSpace(input) = << >> \/ maxLen <= 0 THEN << >>
    ELSE IF Len(TrimSpace(input)) <= maxLen THEN TrimSpace(input)
    ELSE SubSeq(TrimSpace(input), 1, maxLen) \o <<".", ".", ".">>

\* the results without the assets whose URL cannot be minted
ResultsDropUrlFail(ranked, score, urlFail) ==
    LET Minted(id) == id \notin urlFail
        kept == SelectSeq(ranked, Minted)
    IN [i \in 1..Len(kept) |->
           [id |-> kept[i],
            score |-> score[kept[i]],
            status |-> assets[kept[i]].status,
            createdAt |-> assets[kept[i]].createdAt,
            url |-> TRUE,
            fileName |-> FileName(assets[kept[i]].objectName),
            mime |-> assets[kept[i]].mime,
            caption |-> assets[kept[i]].caption,
            preview |-> previewText(assets[kept[i]].content, 240)]]

\* retrieveAssetsForQuery, lines 223-239: the SearchResult of each asset;
\* url says that a presigned URL was minted
Results(ranked, score, urlFail) ==
    [i \in 1..Len(ranked) |->
        [id |-> ranked[i],
         score |-> score[ranked[i]],
         status |-> assets[ranked[i]].status,
         createdAt |-> assets[ranked[i]].createdAt,
         url |-> ranked[i] \notin urlFail,
         fileName |-> FileName(assets[ranked[i]].objectName),
         mime |-> assets[ranked[i]].mime,
         caption |-> assets[ranked[i]].caption,
         preview |-> previewText(assets[ranked[i]].content, 240)]]

\* retrieveAssetsForQuery, lines 156-252, for the scores of the candidates
RankScored(score, hasQuery, limit, threshold, env) ==
    Results(Ranked(Kept(score, hasQuery, threshold), score, env.tie, limit),
            score, env.urlFail)

\* retrieveAssetsForQuery, lines 156-252, for the normalised query
RetrieveNormalized(normalizedQuery, limit, threshold, env) ==
    RankScored(Scored(FetchCandidates(env.tie), normalizedQuery,
                      VectorScores(normalizedQuery /= << >>, env), now),
               normalizedQuery /= << >>, limit, threshold, env)

\* retrieveAssetsForQuery, lines 150-167: the calls to the metadata store
\* and the embedding provider, in order
RetrieveCalls(hasQuery, env) ==
    <<"fetch">>
    \o (IF env.dbOk /\ hasQuery THEN <<"embed">> ELSE << >>)
    \o (IF env.dbOk /\ hasQuery /\ env.embed THEN <<"vector">> ELSE << >>)

\* retrieveAssetsForQuery: the ranked results, or the error of the fetch;
\* with them the limit in force and the calls made
retrieveAssetsForQuery(query, limit, threshold, env) ==
    [err |-> ~env.dbOk,
     limit |-> ClampLimit(limit),
     calls |-> RetrieveCalls(normalizeSearchText(query) /= << >>, env),
     results |-> IF ~env.dbOk THEN << >>
                 ELSE RetrieveNormalized(normalizeSearchText(query),
                                         ClampLimit(limit), threshold, env)]

\* a query parameter: absent (or unparsable), or a number
NoParam == [given |-> FALSE, v |-> 0]
Param(v) == [given |-> TRUE, v |-> v]

\* parseIntWithDefault, parseFloatWithDefault
parseWithDefault(p, fallback) == IF p.given THEN p.v ELSE fallback

\* c.JSON of Search and of Chat: the response o is written
Respond(o) ==
    /\ out.op = "none"
    /\ out' = o
    /\ UNCHANGED <<reqs, issued, objects, removed, assets, tasks, embeddings,
                   queue, pushed, popped, del, now>>

\* Search, lines 89-99
SearchOut(query, limit, threshold, env, r) ==
    [BaseOut("search", IF r.err THEN 500 ELSE 200, query, limit, threshold, env)
        EXCEPT !.effLimit = r.limit,
               !.calls = r.calls,
               !.results = r.results,
               !.message = IF r.err
                           THEN [what |-> "retrieval", status |-> 0, body |-> << >>]
                           ELSE NoMessage]

\* Search, lines 85-89, for the trimmed query
SearchFor(query, limit, threshold, env) ==
    SearchOut(query, limit, threshold, env,
              retrieveAssetsForQuery(query, limit, threshold, env))

\* Search, lines 85-99: the response to a request
SearchResponse(q, limitParam, thresholdParam, env) ==
    SearchFor(TrimSpace(q), parseWithDefault(limitParam, 20),
              parseWithDefault(thresholdParam, 150), env)

\* Search: GET /search?q=&limit=&threshold= (thresholds in thousandths).
\* The handler changes nothing it reads, so a run makes one request: every
\* response the service can give is the response of that request.
Search(q, limitParam, thresholdParam, env) ==
    Respond(SearchResponse(q, limitParam, thresholdParam, env))

\* Chat, lines 116-122
ChatTopK(topK) == IF topK <= 0 THEN 5 ELSE IF topK > 12 THEN 12 ELSE topK

\* strconv.Itoa of a natural number
Digits == <<"0", "1", "2", "3", "4", "5", "6", "7", "8", "9">>

RECURSIVE Itoa(_)
Itoa(n) ==
    IF n < 10 THEN <<Digits[n + 1]>>
    ELSE Itoa(n \div 10) \o <<Digits[(n % 10) + 1]>>

\* callLLMForRAG, lines 329-334: the line of a field that is not blank.  A
\* string literal of the code is kept whole, as one element of the text.
ContextLine(label, text) ==
    IF TrimSpace(text) /= << >> THEN <<label>> \o text \o <<"\n">> ELSE << >>

\* callLLMForRAG, lines 327-335: the block of the source at index idx
\* (counted from 0)
ContextBlock(idx, src) ==
    <<"[">> \o Itoa(idx + 1) \o <<"] ", "id=">> \o IdText(src.id)
    \o <<", file=">> \o src.fileName \o <<", mime=">> \o src.mime \o <<"\n">>
    \o ContextLine("caption: ", src.caption)
    \o ContextLine("text: ", src.preview)
    \o <<"\n">>

\* callLLMForRAG, lines 325-336: contextBuilder, from the source at index idx
\* (counted from 0) on
RECURSIVE ContextFrom(_, _)
ContextFrom(sources, idx) ==
    IF idx >= Len(sources) THEN << >>
    ELSE ContextBlock(idx, sources[idx + 1]) \o ContextFrom(sources, idx + 1)

\* callLLMForRAG, line 338
SystemPrompt ==
    <<"You are ThinkBank assistant. Answer based on provided context. If uncertain, say what is missing.">>

\* callLLMForRAG, line 339
UserPrompt(query, sources) ==
    <<"User query:\n">> \o query \o <<"\n\nRetrieved context:\n">>
    \o ContextFrom(sources, 0)

RoleUser == <<"u", "s", "e", "r">>
RoleSystem == <<"s", "y", "s", "t", "e", "m">>
RoleAssistant == <<"a", "s", "s", "i", "s", "t", "a", "n", "t">>

\* callLLMForRAG, lines 343-346
CoerceRole(role) ==
    IF ToLower(TrimSpace(role)) \in {RoleAssistant, RoleSystem}
    THEN ToLower(TrimSpace(role))
    ELSE RoleUser

\* the messages of the history turns, blank turns included
HistoryMessagesKeepBlank(history) ==
    [i \in 1..Len(history) |->
        [role |-> CoerceRole(history[i].role),
         content |-> TrimSpace(history[i].content)]]

\* callLLMForRAG, lines 342-352: the messages of the history turns
RECURSIVE HistoryMessages(_)
HistoryMessages(history) ==
    IF history = << >> THEN << >>
    ELSE (IF TrimSpace(Head(history).content) = << >> THEN << >>
          ELSE <<[role |-> CoerceRole(Head(history).role),
                  content |-> TrimSpace(Head(history).content)]>>)
         \o HistoryMessages(Tail(history))

\* callLLMForRAG, lines 341-353: the message list of the request
Messages(query, history, sources) ==
    <<[role |-> RoleSystem, content |-> SystemPrompt]>>
    \o HistoryMessages(history)
    \o <<[role |-> RoleUser, content |-> UserPrompt(query, sources)]>>

\* http.StatusText, of the statuses the model's provider answers
StatusText(status) ==
    IF status = 500 THEN <<"Internal Server Error">>
    ELSE IF status = 404 THEN <<"Not Found">>
    ELSE << >>

\* callLLMForRAG, lines 376-400: the error of the provider's answer llm, or
\* NoMessage.  llm.net says that the exchange completed, llm.status and
\* llm.text are the status and the body of the answer, llm.json that the
\* body decodes, llm.choices the contents of its choices.
LlmError(llm) ==
    IF ~llm.net
    THEN [what |-> "transport", status |-> 0, body |-> << >>]
    ELSE IF llm.status < 200 \/ llm.status >= 300
    THEN [what |-> "status", status |-> llm.status,
          body |-> IF TrimSpace(llm.text) = << >> THEN StatusText(llm.status)
                   ELSE TrimSpace(llm.text)]
    ELSE IF ~llm.json
    THEN [what |-> "decode", status |-> 0, body |-> << >>]
    ELSE IF llm.choices = << >>
    THEN [what |-> "choices", status |-> 0, body |-> << >>]
    ELSE NoMessage

\* the answer without the placeholder
LlmAnswerNoPlaceholder(content) == TrimSpace(content)

\* callLLMForRAG, lines 402-406
LlmAnswer(content) ==
    IF TrimSpace(content) = << >> THEN <<"No response generated.">>
    ELSE TrimSpace(content)

\* callLLMForRAG: the answer or the error, and the message list sent
callLLMForRAG(query, history, sources, llm) ==
    [err |-> LlmError(llm) /= NoMessage,
     message |-> LlmError(llm),
     answer |-> IF LlmError(llm) /= NoMessage THEN << >>
                ELSE LlmAnswer(llm.choices[1]),
     messages |-> Messages(query, history, sources)]

\* Chat, lines 124-139: the status of the response
ChatStatus(r, l) == IF r.err THEN 500 ELSE IF l.err THEN 502 ELSE 200

\* Chat, lines 124-139: the response after retrieval r and synthesis l; the
\* provider is called only when retrieval succeeded
ChatOut(query, topK, env, r, l) ==
    [BaseOut("chat", ChatStatus(r, l), query, topK, 50, env)
        EXCEPT !.effLimit = r.limit,
               !.calls = IF r.err THEN r.calls ELSE r.calls \o <<"llm">>,
               !.results = IF ChatStatus(r, l) = 200 THEN r.results ELSE << >>,
               !.answer = IF ChatStatus(r, l) = 200 THEN l.answer ELSE << >>,
               !.message = IF r.err
                           THEN [what |-> "retrieval", status |-> 0, body |-> << >>]
                           ELSE l.message,
               !.messages = IF r.err THEN << >> ELSE l.messages]

\* Chat with the context built from the sources in reverse order
ChatWithReversedContext(query, topK, history, env, llm, r) ==
    ChatOut(query, topK, env, r,
            callLLMForRAG(query, history,
                          [i \in 1..Len(r.results) |->
                              r.results[Len(r.results) + 1 - i]],
                          llm))

\* Chat, lines 124-130, for the sources retrieved
ChatWith(query, topK, history, env, llm, r) ==
    ChatOut(query, topK, env, r, callLLMForRAG(query, history, r.results, llm))

\* Chat with the retrieval made before the query is validated
ChatForRetrieveFirst(query, topK, history, env, llm) ==
    IF query = << >>
    THEN [BaseOut("chat", 400, query, topK, 50, env)
             EXCEPT !.calls =
                 retrieveAssetsForQuery(query, ChatTopK(topK), 50, env).calls]
    ELSE ChatWith(query, topK, history, env, llm,
                  retrieveAssetsForQuery(query, ChatTopK(topK), 50, env))

\* Chat, lines 110-130, for the trimmed query
ChatFor(query, topK, history, env, llm) ==
    IF query = << >>
    THEN BaseOut("chat", 400, query, topK, 50, env)
    ELSE ChatWith(query, topK, history, env, llm,
                  retrieveAssetsForQuery(query, ChatTopK(topK), 50, env))

\* Chat, lines 103-139: the response to a request.  body.ok says that the
\* body binds to ChatRequest.
ChatResponse(body, env, llm) ==
    IF ~body.ok
    THEN BaseOut("chat", 400, << >>, 0, 50, env)
    ELSE [ChatFor(TrimSpace(body.query), body.topK, body.history, env, llm)
             EXCEPT !.history = body.history, !.llm = llm]

\* Chat: POST /chat with body {query, history, top_k}
Chat(body, env, llm) == Respond(ChatResponse(body, env, llm))

---------------------------------------------------------------------------
(* Search against tables the pipeline has filled: each row is in one of    *)
(* the conditions below, which Upload, the worker and DeleteAsset produce. *)
(* age is in hours before the start of the run; dist is the cosine         *)
(* distance of the row's embedding to the query vector in thousandths, or  *)
(* NoDist when the asset has no embedding row.                             *)

NoDist == -1

Profiles ==
    << [status |-> StatusCompleted, deleted |-> FALSE, age |-> 0,
        mime |-> McImagePng, ext |-> PngExt,
        caption |-> <<"A", " ", "C", "a", "t">>,
        content |-> <<"c", "a", "t", "\n", "s", "a", "t">>, dist |-> 300],
       [status |-> StatusCompleted, deleted |-> FALSE, age |-> 0,
        mime |-> McApplicationPdf, ext |-> << >>,
        caption |-> << >>, content |-> <<"d", "o", "g">>, dist |-> 1500],
       [status |-> StatusCompleted, deleted |-> FALSE, age |-> 40,
        mime |-> McTextPlain, ext |-> << >>,
        caption |-> <<"c", "a", "b">>, content |-> << >>, dist |-> NoDist],
       [status |-> StatusCompleted, deleted |-> FALSE, age |-> 210,
        mime |-> McImagePng, ext |-> PngExt,
        caption |-> <<"c", "a", "t">>, content |-> << >>, dist |-> 0],
       [status |-> StatusCompleted, deleted |-> TRUE, age |-> 0,
        mime |-> McImagePng, ext |-> PngExt,
        caption |-> <<"c", "a", "t">>, content |-> << >>, dist |-> 0],
       [status |-> StatusPending, deleted |-> FALSE, age |-> 0,
        mime |-> McImagePng, ext |-> PngExt,
        caption |-> << >>, content |-> << >>, dist |-> NoDist],
       [status |-> StatusProcessing, deleted |-> FALSE, age |-> 1,
        mime |-> McImagePng, ext |-> PngExt,
        caption |-> << >>, content |-> << >>, dist |-> NoDist],
       [status |-> StatusFailed, deleted |-> FALSE, age |-> 40,
        mime |-> McTextPlain, ext |-> << >>,
        caption |-> << >>, content |-> << >>, dist |-> NoDist] >>

AssetIds == 1..MaxAssets

\* the row of an asset in the condition p
AssetRow(id, p) ==
    [id |-> id, objectName |-> ObjectPathOf(id, p.ext), mime |-> p.mime,
     size |-> 1, caption |-> p.caption, content |-> p.content,
     status |-> p.status, createdAt |-> -p.age,
     deleted |-> p.deleted]

\* the tables: asset id takes the condition Profiles[pick[id]].  Identifiers
\* are interchangeable, so only increasing picks are drawn.
Picks ==
    {f \in [AssetIds -> 1..Len(Profiles)] :
        \A i, j \in AssetIds : i < j => f[i] < f[j]}

InitSearch ==
    /\ reqs = [r \in Reqs |-> IdleReq]
    /\ issued = AssetIds
    /\ removed = {}
    /\ \E pick \in Picks :
          /\ assets = [id \in AssetIds |-> AssetRow(id, Profiles[pick[id]])]
          /\ objects = {assets[id].objectName : id \in AssetIds}
          /\ embeddings =
                [id \in {i \in AssetIds : Profiles[pick[i]].dist /= NoDist} |->
                    Profiles[pick[id]].dist]
    /\ tasks = << >>
    /\ queue = << >>
    /\ pushed = << >>
    /\ popped = << >>
    /\ del = IdleDel
    /\ now = 0
    /\ out = NoOut

\* what a client sends to GET /search
Queries ==
    { << >>,
      <<" ">>,
      <<"c", "a", "t">>,
      <<"A", " ", " ", "C", "a", "t", " ">>,
      <<"c", "a", "b", "s">>,
      <<"z", "z">> }

\* limit and threshold: one of them at a time departs from its default
SearchParams ==
    {[limit |-> NoParam, threshold |-> t] :
        t \in {NoParam, Param(0), Param(1000)}}
    \cup {[limit |-> l, threshold |-> NoParam] : l \in {Param(0), Param(1), Param(150)}}

\* what the stores and the embedding provider answer: a store that fails
\* makes the other answers irrelevant
Envs ==
    {e \in [dbOk : BOOLEAN, embed : BOOLEAN, vecOk : BOOLEAN,
            tie : {"asc", "desc"}, urlFail : {{}, {1}}] :
        /\ e.embed \/ e.vecOk
        /\ e.dbOk \/ (e.embed /\ e.vecOk /\ e.tie = "asc" /\ e.urlFail = {})
        /\ e.urlFail = {} \/ (e.embed /\ e.vecOk /\ e.tie = "asc")}

\* a history of one turn
OneTurn == <<[role |-> <<"A", "s", "s", "i", "s", "t", "a", "n", "t">>,
             content |-> <<"h", "i">>]>>

\* what a client sends to POST /chat
ChatBodies ==
    {[ok |-> FALSE, query |-> << >>, topK |-> 0, history |-> << >>]}
    \cup {[ok |-> TRUE, query |-> q, topK |-> k, history |-> OneTurn] :
              q \in Queries, k \in {0, 1, 20}}

\* the provider answers with a text, or the exchange fails
LlmAnswers ==
    {[net |-> TRUE, status |-> 200, text |-> << >>, json |-> TRUE,
      choices |-> <<<<" ", "o", "k", "\n">>>>],
     [net |-> FALSE, status |-> 0, text |-> << >>, json |-> FALSE,
      choices |-> << >>]}

NextSearch ==
    \/ \E q \in Queries, p \in SearchParams, e \in Envs :
          Search(q, p.limit, p.threshold, e)
    \/ \E b \in ChatBodies, e \in Envs, llm \in LlmAnswers :
          Chat(b, e, llm)

SpecSearch == InitSearch /\ [][NextSearch]_vars

---------------------------------------------------------------------------
(* Search alone, for the laws of the score: every query and a range of     *)
(* thresholds, with the stores answering and the embedding provider and    *)
(* the vector query answering or not.                                      *)

ScoreEnvs == {e \in Envs : e.dbOk /\ e.urlFail = {}}

\* thresholds in thousandths, and the default
ScoreThresholds == {NoParam, Param(0), Param(800), Param(1000)}

NextScore ==
    \E q \in Queries, t \in ScoreThresholds, e \in ScoreEnvs :
        Search(q, NoParam, t, e)

SpecScore == InitSearch /\ [][NextScore]_vars

---------------------------------------------------------------------------
(* Chat over a few tables, with the histories a client may send and the    *)
(* answers the LLM provider may give.                                      *)

\* the tables that hold the first two conditions of Profiles
ChatPicks == {f \in Picks : f[1] = 1 /\ f[2] = 2}

InitChat ==
    /\ reqs = [r \in Reqs |-> IdleReq]
    /\ issued = AssetIds
    /\ removed = {}
    /\ \E pick \in ChatPicks :
          /\ assets = [id \in AssetIds |-> AssetRow(id, Profiles[pick[id]])]
          /\ objects = {assets[id].objectName : id \in AssetIds}
          /\ embeddings =
                [id \in {i \in AssetIds : Profiles[pick[i]].dist /= NoDist} |->
                    Profiles[pick[id]].dist]
    /\ tasks = << >>
    /\ queue = << >>
    /\ pushed = << >>
    /\ popped = << >>
    /\ del = IdleDel
    /\ now = 0
    /\ out = NoOut

\* the turns of a history: roles in any case and with blanks around them,
\* roles the provider does not know, contents that are blank or empty
Turns ==
    {[role |-> <<"A", "s", "s", "i", "s", "t", "a", "n", "t">>,
      content |-> <<" ", "h", "i", "\n">>],
     [role |-> <<" ", "S", "y", "s", "t", "e", "m", " ">>,
      content |-> <<"b", "e", " ", "b", "r", "i", "e", "f">>],
     [role |-> <<"t", "o", "o", "l">>, content |-> <<"o", "k">>],
     [role |-> <<"u", "s", "e", "r">>, content |-> <<" ", "\t">>],
     [role |-> << >>, content |-> << >>]}

\* the histories of at most MaxHistory turns
Histories ==
    UNION {[1..n -> Turns] : n \in 0..MaxHistory}

\* what the LLM provider answers: no answer at all, a status outside 2xx
\* with or without a body, a body that does not decode, no choices, and
\* choices whose first content is a text, blank or empty
LlmOutcomes ==
    {NoLlm,
     [net |-> TRUE, status |-> 500, text |-> <<" ", "b", "u", "s", "y", "\n">>,
      json |-> FALSE, choices |-> << >>],
     [net |-> TRUE, status |-> 404, text |-> <<" ">>, json |-> FALSE,
      choices |-> << >>],
     [net |-> TRUE, status |-> 199, text |-> << >>, json |-> TRUE,
      choices |-> <<<<"o", "k">>>>],
     [net |-> TRUE, status |-> 300, text |-> <<"m", "o", "v", "e", "d">>,
      json |-> TRUE, choices |-> <<<<"o", "k">>>>],
     [net |-> TRUE, status |-> 200, text |-> << >>, json |-> FALSE,
      choices |-> << >>],
     [net |-> TRUE, status |-> 200, text |-> << >>, json |-> TRUE,
      choices |-> << >>],
     [net |-> TRUE, status |-> 299, text |-> << >>, json |-> TRUE,
      choices |-> <<<<" ", "o", "k", "\n">>, <<"n", "o">>>>],
     [net |-> TRUE, status |-> 200, text |-> << >>, json |-> TRUE,
      choices |-> <<<<" ", "\n">>>>],
     [net |-> TRUE, status |-> 200, text |-> << >>, json |-> TRUE,
      choices |-> <<<< >>>>]}

\* the provider answers with a text
LlmOk ==
    [net |-> TRUE, status |-> 200, text |-> << >>, json |-> TRUE,
     choices |-> <<<<"o", "k">>>>]

\* the stores and the embedding provider answer
EnvOk == [dbOk |-> TRUE, embed |-> TRUE, vecOk |-> TRUE, tie |-> "asc",
          urlFail |-> {}]

\* what a client asks
ChatQueries == {<<"c", "a", "t">>, <<" ", "z", "z">>}

NextChat ==
    \/ \E q \in ChatQueries, k \in {0, 1}, h \in Histories :
          Chat([ok |-> TRUE, query |-> q, topK |-> k, history |-> h],
               EnvOk, LlmOk)
    \/ \E q \in ChatQueries, h \in {<< >>, OneTurn}, llm \in LlmOutcomes :
          Chat([ok |-> TRUE, query |-> q, topK |-> 0, history |-> h],
               EnvOk, llm)

SpecChat == InitChat /\ [][NextChat]_vars

---------------------------------------------------------------------------
(* A Search request and its repetition: the client sends the same query,   *)
(* limit and threshold again, against the same tables and with the same    *)
(* answers of the stores and the embedding provider, at once or after the  *)
(* clock has advanced.  The order in which PostgreSQL returns rows of      *)
(* equal created_at is the one thing that may differ (tie).                *)

\* time passes between the two requests
Tick ==
    /\ out.op = "search"
    /\ now < MaxTicks
    /\ now' = now + 1
    /\ UNCHANGED <<reqs, issued, objects, removed, assets, tasks, embeddings,
                   queue, pushed, popped, del, out>>

\* Search, lines 84-100, for the request of the response in out
SearchAgain(tie) ==
    /\ out.op = "search"
    /\ out' = [SearchFor(out.query, out.limit, out.threshold,
                         [out.env EXCEPT !.tie = tie])
                 EXCEPT !.op = "again",
                        !.first = [at |-> out.at, tie |-> out.env.tie,
                                   results |-> out.results]]
    /\ UNCHANGED <<reqs, issued, objects, removed, assets, tasks, embeddings,
                   queue, pushed, popped, del, now>>

\* the stores answer; the embedding provider answers or not
RepeatEnvs ==
    {e \in Envs : e.dbOk /\ e.vecOk /\ e.urlFail = {}}

NextRepeat ==
    \/ \E q \in Queries, l \in {NoParam, Param(1)}, e \in RepeatEnvs :
          Search(q, l, NoParam, e)
    \/ Tick
    \/ \E tie \in {"asc", "desc"} : SearchAgain(tie)

SpecRepeat == InitSearch /\ [][NextRepeat]_vars

---------------------------------------------------------------------------
(* One Upload alone, over a wider set of files: every entry of the         *)
(* allow-list, types that extend an entry, types that an entry extends,    *)
(* and unrelated types, each below, at and above the size ceiling.         *)

MimeInputs ==
    { McImageJpeg, McImagePng, McImageGif, McImageWebp, McApplicationPdf,
      McTextPlain, McApplicationJson, McTextMarkdown, McTextPlainUtf8,
      McVideoMp4, McExecutable, McImagePn, McEmpty }

SizeInputs == {0, MaxFileSize, MaxFileSize + 1, 150 * 1024 * 1024}

AllUploadInputs ==
    { [size |-> sz, mime |-> m, ext |-> << >>] : sz \in SizeInputs, m \in MimeInputs }

UploadAny(r) == UploadBeginWith(r, AllUploadInputs)

NextUpload ==
    \/ UploadAny(1)
    \/ UploadStore(1)
    \/ UploadCreateAsset(1)
    \/ UploadCreateTask(1)
    \/ UploadPushTask(1)
    \/ PopTask

SpecUpload == Init /\ [][NextUpload]_vars

---------------------------------------------------------------------------
(* Properties of the ingestion pipeline *)

\* number of places of q that hold x
Occ(x, q) == Cardinality({i \in 1..Len(q) : q[i] = x})

\* the task rows of asset id
TaskRows(id) == {i \in 1..Len(tasks) : tasks[i].assetID = id}

\* the object names ever stored under identifier id
StoredNames(id) == {o \in objects \cup removed : o.id = id}

\* request r has written nothing: none of the four stores holds anything
\* under the identifier r would have drawn
NoEffect(r) ==
    /\ reqs[r].calls = << >>
    /\ StoredNames(NewUUID(r)) = {}
    /\ NewUUID(r) \notin DOMAIN assets
    /\ TaskRows(NewUUID(r)) = {}
    /\ Occ(NewUUID(r), pushed) = 0
    /\ Occ(NewUUID(r), queue) = 0

\* C1: an Upload whose file is larger than 100 MiB is answered 400
\* FileTooLarge and has written no object, no asset row, no task row and no
\* queue entry.
C1_TooLargeRejected ==
    \A r \in Reqs :
        (reqs[r].pc /= "idle" /\ reqs[r].file.size > 100 * 1024 * 1024)
            => /\ reqs[r].pc = "done"
               /\ reqs[r].resp = [http |-> 400, code |-> 20003, assetID |-> 0]
               /\ NoEffect(r)

\* C1 witness: a file over the ceiling was rejected while another upload's
\* object, rows and queue entry are in the stores
C1_Witness ==
    \E r \in Reqs :
        /\ reqs[r].file.size > 100 * 1024 * 1024
        /\ reqs[r].resp.code = 20003
        /\ objects /= {} /\ DOMAIN assets /= {} /\ Len(tasks) > 0 /\ Len(queue) > 0

\* the allow-list as the claim states it
AllowList ==
    { McImageJpeg, McImagePng, McImageGif, McImageWebp, McApplicationPdf,
      McTextPlain, McApplicationJson, McTextMarkdown }

\* some entry of the allow-list equals m or is a proper prefix of m
Allowed(m) ==
    \E t \in AllowList :
        /\ Len(t) <= Len(m)
        /\ \A i \in 1..Len(t) : m[i] = t[i]

\* C2: a file within the size ceiling is accepted if and only if an entry of
\* the allow-list equals its declared type or is a prefix of it; any other
\* type is answered 400 InvalidFileType before anything is written.
C2_TypeAllowList ==
    \A r \in Reqs :
        (reqs[r].pc /= "idle" /\ reqs[r].file /= NoFile
            /\ reqs[r].file.size <= 100 * 1024 * 1024)
            => IF Allowed(reqs[r].file.mime)
               THEN /\ reqs[r].resp.code /= 20002
                    /\ reqs[r].id /= 0
                    /\ (reqs[r].pc = "done" => reqs[r].calls /= << >>)
               ELSE /\ reqs[r].pc = "done"
                    /\ reqs[r].resp = [http |-> 400, code |-> 20002, assetID |-> 0]
                    /\ NoEffect(r)

\* C2 witness: a type that extends an entry (text/plain; charset=utf-8) went
\* through to a stored asset
C2_Witness ==
    \E r \in Reqs :
        /\ reqs[r].file.mime = McTextPlainUtf8
        /\ reqs[r].resp.http = 200

\* a type outside the allow-list, within the size ceiling, was rejected
C2_WitnessRejected ==
    \E r \in Reqs :
        /\ reqs[r].file.mime \in {McVideoMp4, McExecutable, McImagePn, McEmpty}
        /\ reqs[r].file.size <= 100 * 1024 * 1024
        /\ reqs[r].resp.code = 20002

\* C3: every Upload that answered 200 has stored exactly one object, one
\* asset row (PENDING until a worker takes it), one task row (QUEUED until
\* then) and one queue entry, all under the identifier it returned, which no
\* other request uses; the entry is on the queue or was delivered, once.
C3_SuccessfulUpload ==
    \A r \in Reqs :
        reqs[r].resp.http = 200 =>
            LET id == reqs[r].resp.assetID IN
            /\ id = reqs[r].id /\ id /= 0
            /\ \A r2 \in Reqs \ {r} : reqs[r2].id /= id
            /\ Cardinality(StoredNames(id)) = 1
            /\ id \in DOMAIN assets
            /\ assets[id].objectName \in StoredNames(id)
            /\ Cardinality(TaskRows(id)) = 1
            /\ Occ(id, pushed) = 1
            /\ Occ(id, queue) + Occ(id, popped) = 1
            /\ Occ(id, popped) = 0 =>
                  /\ assets[id].status = "PENDING"
                  /\ \A i \in TaskRows(id) : tasks[i].stage = "QUEUED"

\* C3 witness: two interleaved uploads both succeeded
C3_Witness ==
    /\ \A r \in Reqs : reqs[r].resp.http = 200
    /\ Len(queue) = MaxUploads

Steps == <<"put", "asset", "task", "push">>

\* C4: the calls of an Upload are a prefix of (object write, asset insert,
\* task insert, enqueue); a call is made only when the ones before it took
\* effect; the answer names the stage of the failing call; an identifier on
\* the queue has its asset row and its task row.
C4_StepsInOrder ==
    /\ \A r \in Reqs :
        LET c == reqs[r].calls
            n == Len(reqs[r].calls)
            id == reqs[r].id
        IN
        /\ n <= 4 /\ c = SubSeq(Steps, 1, n)
        /\ (n >= 2 \/ reqs[r].pc \in {"insAsset"}) => StoredNames(id) /= {}
        /\ (n >= 3 \/ reqs[r].pc \in {"insTask"}) => id \in DOMAIN assets
        /\ (n >= 4 \/ reqs[r].pc \in {"push"}) => TaskRows(id) /= {}
        /\ reqs[r].pc = "put" => n = 0
        /\ reqs[r].pc = "insAsset" => n = 1
        /\ reqs[r].pc = "insTask" => n = 2
        /\ reqs[r].pc = "push" => n = 3
        /\ reqs[r].pc = "done" =>
              /\ reqs[r].resp.http = 400 => n = 0
              /\ reqs[r].resp.code = 10004 => n = 1
              /\ reqs[r].resp.code = 10002 => n \in {2, 3}
              /\ reqs[r].resp.code = 10003 => n = 4
              /\ reqs[r].resp.http = 200 => n = 4
              /\ reqs[r].resp.http \in {200, 400, 500}
    /\ \A i \in 1..Len(pushed) :
          /\ pushed[i] \in DOMAIN assets
          /\ TaskRows(pushed[i]) /= {}

\* C4 witness: one upload failed at the task insert while another is about
\* to push
C4_Witness ==
    \E r1, r2 \in Reqs :
        /\ reqs[r1].resp.code = 10002 /\ Len(reqs[r1].calls) = 3
        /\ reqs[r2].pc = "push"

\* C5: an Upload that failed at step k has left the effects of the steps
\* before k in place and nothing of step k or later, and nothing puts its
\* identifier on the queue afterwards.
C5_NoRollback ==
    \A r \in Reqs :
        (reqs[r].pc = "done" /\ reqs[r].resp.http = 500) =>
            LET n == Len(reqs[r].calls)
                id == reqs[r].id
            IN
            /\ Occ(id, pushed) = 0 /\ Occ(id, queue) = 0 /\ Occ(id, popped) = 0
            /\ n = 1 => /\ StoredNames(id) = {}
                        /\ id \notin DOMAIN assets
                        /\ TaskRows(id) = {}
            /\ n = 2 => /\ Cardinality({o \in objects : o.id = id}) = 1
                        /\ id \notin DOMAIN assets
                        /\ TaskRows(id) = {}
            /\ n >= 3 => /\ Cardinality(StoredNames(id)) = 1
                         /\ id \in DOMAIN assets
                         /\ assets[id].status = "PENDING"
                         /\ assets[id].caption = << >>
            /\ n = 3 => TaskRows(id) = {}
            /\ n = 4 => /\ Cardinality(TaskRows(id)) = 1
                        /\ \A i \in TaskRows(id) :
                              tasks[i].stage = "QUEUED" /\ tasks[i].status = "PENDING"

\* C5 witness: the enqueue failed; object, PENDING row and QUEUED task row
\* exist, the queue does not hold the identifier, and the other upload went
\* through
C5_Witness ==
    \E r, r2 \in Reqs :
        /\ reqs[r].resp.code = 10003
        /\ reqs[r].id \in DOMAIN assets
        /\ reqs[r2].resp.http = 200
        /\ Len(popped) > 0

WorkerStep == \E id \in DOMAIN assets : WorkerStart(id) \/ WorkerFinish(id)

\* C6: the status of an asset is one of the four processing statuses; a row
\* is created PENDING; and no step other than a worker's changes status,
\* caption or content of a row that exists.
C6_OnlyWorkerAdvances ==
    [][ /\ \A id \in DOMAIN assets' :
              assets'[id].status \in {"PENDING", "PROCESSING", "COMPLETED", "FAILED"}
        /\ \A id \in (DOMAIN assets') \ (DOMAIN assets) :
              assets'[id].status = "PENDING"
        /\ WorkerStep \/
              \A id \in DOMAIN assets :
                  /\ id \in DOMAIN assets'
                  /\ assets'[id].status = assets[id].status
                  /\ assets'[id].caption = assets[id].caption
                  /\ assets'[id].content = assets[id].content
      ]_vars

\* C6 witness: a COMPLETED asset was soft-deleted by DeleteAsset and kept
\* its status, while another asset is still PENDING
C6_Witness ==
    \E id, id2 \in DOMAIN assets :
        /\ assets[id].deleted /\ assets[id].status = "COMPLETED"
        /\ assets[id2].status = "PENDING"

RECURSIVE Reverse(_)
Reverse(q) == IF q = << >> THEN << >> ELSE Append(Reverse(Tail(q)), Head(q))

\* C7: the identifiers delivered so far, followed by the queue read from its
\* tail, are the identifiers in the order they were pushed: pops follow the
\* push order and every pushed identifier is delivered at most once and
\* never lost.
C7_Fifo == popped \o Reverse(queue) = pushed

\* C7 witness: two identifiers were on the queue together and were delivered
\* in push order, the later request's first
C7_Witness == pushed = <<2, 1>> /\ popped = <<2, 1>>


---------------------------------------------------------------------------
(* Retrieval *)

\* the assets a candidate fetch may return
Eligible ==
    {id \in DOMAIN assets :
        assets[id].status = StatusCompleted /\ ~assets[id].deleted}

\* fewer than CandidateLimit eligible assets are newer than id
AmongMostRecent(id) ==
    Cardinality({b \in Eligible : assets[b].createdAt > assets[id].createdAt})
        < CandidateLimit

Answered == out.op \in {"search", "chat"} /\ out.http = 200

ResultIds == {out.results[i].id : i \in 1..Len(out.results)}

\* C8: every result of Search and every source of Chat is an asset that is
\* COMPLETED, not soft-deleted, and among the CandidateLimit most recently
\* created such assets; no PENDING, PROCESSING or FAILED asset is returned.
C8_ResultsAreRecentCompleted ==
    Answered =>
        \A i \in 1..Len(out.results) :
            /\ out.results[i].id \in Eligible
            /\ AmongMostRecent(out.results[i].id)
            /\ out.results[i].status = StatusCompleted

\* a search answered with results while the tables hold a COMPLETED asset
\* beyond the cut and an asset that is not COMPLETED or is soft-deleted
C8_Witness ==
    /\ out.op = "search" /\ out.http = 200
    /\ Len(out.results) = CandidateLimit
    /\ \E id \in Eligible : ~AmongMostRecent(id)
    /\ \E id \in DOMAIN assets : id \notin Eligible

HasQuery == normalizeSearchText(out.query) /= << >>

\* the candidates of the fetch: the eligible assets, up to the cut
CandidateCount ==
    IF Cardinality(Eligible) < CandidateLimit
    THEN Cardinality(Eligible) ELSE CandidateLimit

\* the limit in force: 20 when the request's is not positive, at most 100
LimitInForce ==
    IF out.limit <= 0 THEN 20 ELSE IF out.limit > 100 THEN 100 ELSE out.limit

\* C9: threshold law.  For a query that is not empty after normalisation no
\* result has a final score below the threshold; for an empty query no
\* candidate is dropped for its score: the results are all the candidates,
\* up to the limit.
C9_ThresholdLaw ==
    Answered =>
        IF HasQuery
        THEN \A i \in 1..Len(out.results) : out.results[i].score >= out.threshold
        ELSE Len(out.results) =
                 (IF CandidateCount < LimitInForce THEN CandidateCount
                  ELSE LimitInForce)

\* a search for a non-empty query at the default threshold that kept one
\* candidate and dropped another
C9_Witness ==
    /\ out.op = "search" /\ out.http = 200 /\ HasQuery
    /\ out.threshold = 150 /\ out.limit = 20
    /\ Len(out.results) >= 1
    /\ Len(out.results) < CandidateCount

\* an empty query answered with a result whose score is below the threshold
C9_WitnessEmptyQuery ==
    /\ out.op = "search" /\ out.http = 200 /\ ~HasQuery
    /\ \E i \in 1..Len(out.results) : out.results[i].score < out.threshold

\* C10: the final score of every result, after the recency adjustment and
\* the rounding to three decimals, lies in [0, 1] (0..1000 thousandths).
C10_ScoreInUnitInterval ==
    Answered =>
        \A i \in 1..Len(out.results) :
            out.results[i].score >= 0 /\ out.results[i].score <= 1000

\* C10, the half that holds: no final score exceeds 1
C10_ScoreAtMostOne ==
    Answered =>
        \A i \in 1..Len(out.results) : out.results[i].score <= 1000

\* a result with a negative final score
C10_NegativeScore ==
    /\ Answered
    /\ \E i \in 1..Len(out.results) : out.results[i].score < 0


\* the request was repeated and the store ordered equal rows as before
Repeated == out.op = "again" /\ out.env.tie = out.first.tie

\* the score that the first response gave asset id, as a set
FirstScores(id) ==
    {out.first.results[i].score :
        i \in {j \in 1..Len(out.first.results) : out.first.results[j].id = id}}

C11_WitnessLater ==
    /\ Repeated /\ out.at > out.first.at
    /\ \E i \in 1..Len(out.results) : FirstScores(out.results[i].id) /= {}

\* a repetition at the same clock reading, the store ordering equal rows
\* the other way, that returns the results in another order
C11_WitnessOtherOrder ==
    /\ out.op = "again" /\ out.at = out.first.at
    /\ out.results /= out.first.results

\* the retrieval had no vector scores: no query vector, a vector query that
\* failed, or one that returned no rows
NoVectorScores ==
    \/ ~out.env.embed
    \/ ~out.env.vecOk
    \/ DOMAIN embeddings = {}

\* the lexical score of a candidate with the recency term, in thousandths
LexicalScore(id, normalizedQuery, at) ==
    RoundMilli(
        RAdd(CharScoreNorm(assets[id], normalizedQuery,
                           uniqueRunes(normalizedQuery), normalizedQuery /= << >>),
             Rat(assets[id].createdAt - at, 1000)))

\* the lexical-only ranking of the candidates under the request's recency,
\* threshold and limit
LexicalRanking(cands, normalizedQuery, limit, threshold, env, at) ==
    RankScored([id \in {cands[i] : i \in 1..Len(cands)} |->
                   LexicalScore(id, normalizedQuery, at)],
               normalizedQuery /= << >>, limit, threshold, env)

\* C12: fallback law.  When the retrieval has no vector scores (the
\* embedding call gave no vector, or the vector query failed or returned no
\* rows), the results, their order and their scores are those of the
\* lexical-only ranking with the same recency, threshold and limit.
C12_FallbackLaw ==
    (Answered /\ NoVectorScores) =>
        out.results =
            LexicalRanking(FetchCandidates(out.env.tie),
                           normalizeSearchText(out.query), out.effLimit,
                           out.threshold, out.env, out.at)

\* a search for a non-empty query whose vector query failed while the
\* embedding table has rows, answered with two results
C12_Witness ==
    /\ out.op = "search" /\ out.http = 200 /\ HasQuery
    /\ out.env.embed /\ ~out.env.vecOk
    /\ DOMAIN embeddings /= {}
    /\ Len(out.results) >= 2

\* a search for a non-empty query whose embedding call gave no vector
C12_WitnessNoVector ==
    /\ out.op = "search" /\ out.http = 200 /\ HasQuery
    /\ ~out.env.embed
    /\ Len(out.results) >= 1

\* a search for a non-empty query whose vector query returned no rows
C12_WitnessNoRows ==
    /\ out.op = "search" /\ out.http = 200 /\ HasQuery
    /\ out.env.embed /\ out.env.vecOk
    /\ DOMAIN embeddings = {}
    /\ Len(out.results) >= 1

\* the results with every URL set
WithUrls(results) ==
    [i \in 1..Len(results) |-> [results[i] EXCEPT !.url = TRUE]]

\* C13: Search answers with an error exactly when the candidate fetch
\* fails; a failure of the embedding call, of the vector query or of the
\* URL minting does not.  A result whose URL cannot be minted has no URL,
\* and the result set, its order and its scores are those of the same
\* request with every URL minted.
C13_OnlyFetchFails ==
    out.op = "search" =>
        /\ out.http = (IF out.env.dbOk THEN 200 ELSE 500)
        /\ out.http = 500 => out.results = << >>
        /\ out.http = 200 =>
              /\ \A i \in 1..Len(out.results) :
                    out.results[i].url = (out.results[i].id \notin out.env.urlFail)
              /\ WithUrls(out.results) =
                    RetrieveNormalized(normalizeSearchText(out.query),
                                       out.effLimit, out.threshold,
                                       [out.env EXCEPT !.urlFail = {}])

\* a search answered with two results or more, one of them without URL
C13_Witness ==
    /\ out.op = "search" /\ out.http = 200
    /\ Len(out.results) >= 2
    /\ \E i \in 1..Len(out.results) : ~out.results[i].url

\* a search answered although the embedding call failed
C13_WitnessEmbedFails ==
    /\ out.op = "search" /\ out.http = 200 /\ HasQuery
    /\ ~out.env.embed

\* a search answered although the vector query failed
C13_WitnessVectorFails ==
    /\ out.op = "search" /\ out.http = 200 /\ HasQuery
    /\ out.env.embed /\ ~out.env.vecOk

\* a search whose candidate fetch failed
C13_WitnessFetchFails ==
    out.op = "search" /\ out.http = 500

\* the limit in force for the request of out: Search's limit is 20 when it
\* is not positive and at most 100, Chat's top_k is 5 when it is not
\* positive and at most 12
EffectiveLimit ==
    IF out.op = "chat"
    THEN (IF out.limit <= 0 THEN 5 ELSE IF out.limit > 12 THEN 12 ELSE out.limit)
    ELSE LimitInForce

\* the candidates that survive the filtering of the request of out
Survivors ==
    Kept(Scored(FetchCandidates(out.env.tie), normalizeSearchText(out.query),
                VectorScores(HasQuery, out.env), out.at),
         HasQuery, out.threshold)

\* C14: the number of results is at most the limit in force, and it is
\* that limit when more candidates survive the filtering; otherwise every
\* survivor is returned.
C14_LimitLaw ==
    Answered =>
        /\ out.effLimit = EffectiveLimit
        /\ Len(out.results) <= EffectiveLimit
        /\ Len(out.results) = Min2(EffectiveLimit, Cardinality(Survivors))

\* a search with limit 1 that two candidates or more survive
C14_Witness ==
    /\ out.op = "search" /\ out.http = 200
    /\ out.limit = 1 /\ Len(out.results) = 1
    /\ Cardinality(Survivors) >= 2

\* a chat with top_k 1 that two candidates or more survive
C14_WitnessChat ==
    /\ out.op = "chat" /\ out.http = 200
    /\ out.limit = 1 /\ Len(out.results) = 1
    /\ Cardinality(Survivors) >= 2

\* a search with limit 0, answered under the default of 20
C14_WitnessDefault ==
    /\ out.op = "search" /\ out.http = 200
    /\ out.limit = 0 /\ out.effLimit = 20
    /\ Len(out.results) >= 2

\* requests above the ceilings, answered under 100 and 12
C14_WitnessCeiling ==
    /\ Answered /\ Len(out.results) >= 1
    /\ \/ out.op = "search" /\ out.limit = 150 /\ out.effLimit = 100
       \/ out.op = "chat" /\ out.limit = 20 /\ out.effLimit = 12

\* the final scores of the candidates of the request of out
RequestScores ==
    Scored(FetchCandidates(out.env.tie), normalizeSearchText(out.query),
           VectorScores(HasQuery, out.env), out.at)

\* a result with score s created at c comes ahead of one with score t
\* created at d
Ahead(s, c, t, d) == s > t \/ (s = t /\ c > d)

\* C15: the results are in decreasing order of final score, results of
\* equal score in decreasing order of creation time; the cut to the limit
\* is made after the sorting, so no surviving candidate that was cut off
\* comes ahead of a result.
C15_Ordering ==
    Answered =>
        /\ \A i, j \in 1..Len(out.results) :
              i < j => ~Ahead(out.results[j].score, out.results[j].createdAt,
                              out.results[i].score, out.results[i].createdAt)
        /\ \A id \in Survivors \ ResultIds :
              \A i \in 1..Len(out.results) :
                  ~Ahead(RequestScores[id], assets[id].createdAt,
                         out.results[i].score, out.results[i].createdAt)

\* a response cut to the limit whose first result is older than a survivor
\* that was cut off
C15_Witness ==
    /\ Answered /\ Len(out.results) >= 1
    /\ \E id \in Survivors \ ResultIds :
          assets[id].createdAt > out.results[1].createdAt

\* a response with two results of equal score and different creation time
C15_WitnessTie ==
    /\ Answered
    /\ \E i, j \in 1..Len(out.results) :
          /\ i < j
          /\ out.results[i].score = out.results[j].score
          /\ out.results[i].createdAt > out.results[j].createdAt

\* a response whose results are not in the order of creation
C15_WitnessByScore ==
    /\ Answered
    /\ \E i, j \in 1..Len(out.results) :
          /\ i < j
          /\ out.results[i].score > out.results[j].score
          /\ out.results[i].createdAt < out.results[j].createdAt

\* C16: for a query that is empty after normalisation the results are the
\* COMPLETED assets of the candidate fetch, up to the limit, newest first;
\* each is scored from the flat lexical constant 0.1 (a third of it, less
\* the recency term), none is dropped for its score, and neither the
\* embedding call nor the vector query is issued.
C16_EmptyQuery ==
    (Answered /\ ~HasQuery) =>
        /\ ResultIds \subseteq Eligible
        /\ Len(out.results) = Min2(EffectiveLimit, CandidateCount)
        /\ \A i, j \in 1..Len(out.results) :
              i < j => out.results[i].createdAt >= out.results[j].createdAt
        /\ \A id \in Eligible \ ResultIds :
              \A i \in 1..Len(out.results) :
                  assets[id].createdAt <= out.results[i].createdAt
        /\ \A i \in 1..Len(out.results) :
              out.results[i].score =
                  RoundMilli(Rat(100 - 3 * (out.at - out.results[i].createdAt),
                                 3000))
        /\ out.calls = <<"fetch">>

\* a search for a blank query answered with two results of different age,
\* both scored under the default threshold, while the embedding table has
\* rows and the provider would have answered
C16_Witness ==
    /\ out.op = "search" /\ out.http = 200 /\ ~HasQuery
    /\ out.env.embed /\ out.env.vecOk /\ DOMAIN embeddings /= {}
    /\ Len(out.results) >= 2
    /\ out.results[1].createdAt > out.results[2].createdAt
    /\ out.results[1].score < out.threshold

\* the number of requests made to the language model
LlmCalls == Cardinality({i \in 1..Len(out.calls) : out.calls[i] = "llm"})

\* C17: a Chat whose query is empty after trimming is rejected with 400
\* before any call is made (no candidate fetch, no embedding, no language
\* model); a Chat whose retrieval fails makes no language-model request;
\* no Chat makes more than one, and when it makes one it is the last call,
\* after the candidate fetch.
C17_ChatSideEffects ==
    out.op = "chat" =>
        /\ TrimSpace(out.query) = << >> =>
              /\ out.http = 400
              /\ out.calls = << >>
              /\ out.results = << >> /\ out.answer = << >>
        /\ (TrimSpace(out.query) /= << >> /\ ~out.env.dbOk) =>
              /\ out.http = 500
              /\ LlmCalls = 0
              /\ out.messages = << >>
        /\ LlmCalls <= 1
        /\ LlmCalls = 1 =>
              /\ out.calls[Len(out.calls)] = "llm"
              /\ out.calls[1] = "fetch"

\* a chat with a blank query and top_k 1, rejected while the stores and the
\* provider would have answered
C17_Witness ==
    /\ out.op = "chat" /\ out.http = 400 /\ out.limit = 1
    /\ out.env.dbOk /\ out.env.embed /\ out.env.vecOk

\* a chat whose candidate fetch failed
C17_WitnessRetrievalFails ==
    /\ out.op = "chat" /\ out.http = 500 /\ ~out.env.dbOk

\* a chat that made its one request to the language model
C17_WitnessOneCall ==
    /\ out.op = "chat" /\ out.http \in {200, 502} /\ LlmCalls = 1

\* a turn whose content is not blank
HasContent(turn) == TrimSpace(turn.content) /= << >>

\* the role sent for a turn: assistant or system when the turn's role is
\* one of them after trimming and lower-casing, user otherwise
SentRole(role) ==
    IF ToLower(TrimSpace(role)) = <<"a", "s", "s", "i", "s", "t", "a", "n", "t">>
    THEN <<"a", "s", "s", "i", "s", "t", "a", "n", "t">>
    ELSE IF ToLower(TrimSpace(role)) = <<"s", "y", "s", "t", "e", "m">>
    THEN <<"s", "y", "s", "t", "e", "m">>
    ELSE <<"u", "s", "e", "r">>

\* the head of the user message: the query under its title, and the title
\* of the context
UserHead(query) ==
    <<"User query:\n">> \o query \o <<"\n\nRetrieved context:\n">>

\* C18: the message list sent to the language model is the system
\* instruction, then one message per history turn whose content is not
\* blank, in the order of the history, with the content trimmed and the
\* role trimmed, lower-cased and replaced by user unless it is assistant or
\* system, then one user message that carries the query and the context;
\* its length is 2 plus the number of turns that are not blank.
C18_MessageList ==
    (out.op = "chat" /\ LlmCalls = 1) =>
        /\ Len(out.messages) = 2 + Len(SelectSeq(out.history, HasContent))
        /\ out.messages[1] =
              [role |-> <<"s", "y", "s", "t", "e", "m">>, content |-> SystemPrompt]
        /\ \A i \in 1..Len(SelectSeq(out.history, HasContent)) :
              /\ out.messages[i + 1].role =
                    SentRole(SelectSeq(out.history, HasContent)[i].role)
              /\ out.messages[i + 1].content =
                    TrimSpace(SelectSeq(out.history, HasContent)[i].content)
        /\ out.messages[Len(out.messages)].role = <<"u", "s", "e", "r">>
        /\ Len(out.messages[Len(out.messages)].content) >= Len(UserHead(out.query))
        /\ SubSeq(out.messages[Len(out.messages)].content, 1,
                  Len(UserHead(out.query))) = UserHead(out.query)

\* a chat whose history of two turns has a blank turn and a turn of a role
\* the provider does not know
C18_Witness ==
    /\ out.op = "chat" /\ out.http = 200
    /\ Len(out.history) = 2 /\ Len(out.messages) = 3
    /\ out.messages[2].role = <<"u", "s", "e", "r">>
    /\ out.history[2].role = <<"t", "o", "o", "l">>

\* a chat whose history has a turn of role " System " and a turn of role
\* "Assistant" with blanks around its content
C18_WitnessRoles ==
    /\ out.op = "chat" /\ out.http = 200
    /\ Len(out.messages) = 4
    /\ out.messages[2].role = <<"s", "y", "s", "t", "e", "m">>
    /\ out.messages[3].role = <<"a", "s", "s", "i", "s", "t", "a", "n", "t">>
    /\ out.messages[3].content /= out.history[2].content

\* a chat without history
C18_WitnessNoHistory ==
    /\ out.op = "chat" /\ out.http = 200
    /\ out.history = << >> /\ Len(out.messages) = 2

\* the provider call of the request of out failed: no answer, a status
\* outside 2xx, a body that does not decode, or no choices
ProviderFailed ==
    \/ ~out.llm.net
    \/ out.llm.status < 200 \/ out.llm.status > 299
    \/ ~out.llm.json
    \/ out.llm.choices = << >>

\* C19: a Chat that reaches the provider call ends in one of two ways.
\* When the call fails (network error, status outside 2xx, undecodable
\* body, no choices) the response is a synthesis error (502) with no answer
\* and no sources, and for a status outside 2xx the error carries the
\* status and the trimmed body.  Otherwise the response is 200 with an
\* answer that is trimmed and not empty: the first choice's content
\* trimmed, or 'No response generated.' when that is blank.
C19_ChatOutcome ==
    (out.op = "chat" /\ LlmCalls = 1) =>
        /\ out.http = (IF ProviderFailed THEN 502 ELSE 200)
        /\ out.http = 502 =>
              /\ out.answer = << >> /\ out.results = << >>
              /\ out.message /= NoMessage
              /\ (out.llm.net /\ (out.llm.status < 200 \/ out.llm.status > 299)) =>
                    /\ out.message.what = "status"
                    /\ out.message.status = out.llm.status
                    /\ TrimSpace(out.llm.text) /= << >> =>
                          out.message.body = TrimSpace(out.llm.text)
        /\ out.http = 200 =>
              /\ out.message = NoMessage
              /\ out.answer /= << >>
              /\ TrimSpace(out.answer) = out.answer
              /\ out.answer =
                    (IF TrimSpace(out.llm.choices[1]) = << >>
                     THEN <<"No response generated.">>
                     ELSE TrimSpace(out.llm.choices[1]))

\* a chat whose provider answered 500 with a body, after sources had been
\* retrieved
C19_Witness ==
    /\ out.op = "chat" /\ out.http = 502
    /\ out.llm.status = 500 /\ out.message.body = <<"b", "u", "s", "y">>
    /\ Len(out.messages) >= 2

\* a chat whose provider answered with a blank content
C19_WitnessPlaceholder ==
    /\ out.op = "chat" /\ out.http = 200
    /\ out.llm.choices[1] /= << >> /\ TrimSpace(out.llm.choices[1]) = << >>
    /\ out.answer = <<"No response generated.">>

\* a chat whose provider answered with a text that needed trimming
C19_WitnessAnswer ==
    /\ out.op = "chat" /\ out.http = 200
    /\ out.answer = <<"o", "k">> /\ out.llm.choices[1] /= out.answer
    /\ Len(out.results) >= 1

\* a chat whose provider did not answer
C19_WitnessNetwork ==
    out.op = "chat" /\ out.http = 502 /\ out.message.what = "transport"

\* a chat whose provider answered without choices
C19_WitnessNoChoices ==
    out.op = "chat" /\ out.http = 502 /\ out.message.what = "choices"

\* the context block that describes source src under the marker [i]
SourceBlock(i, src) ==
    <<"[">> \o Itoa(i) \o <<"] ", "id=">> \o IdText(src.id)
    \o <<", file=">> \o src.fileName \o <<", mime=">> \o src.mime \o <<"\n">>
    \o (IF TrimSpace(src.caption) = << >> THEN << >>
        ELSE <<"caption: ">> \o src.caption \o <<"\n">>)
    \o (IF TrimSpace(src.preview) = << >> THEN << >>
        ELSE <<"text: ">> \o src.preview \o <<"\n">>)
    \o <<"\n">>

\* the blocks of the sources from the i-th on, one after the other
RECURSIVE SourceBlocksFrom(_, _)
SourceBlocksFrom(sources, i) ==
    IF i > Len(sources) THEN << >>
    ELSE SourceBlock(i, sources[i]) \o SourceBlocksFrom(sources, i + 1)

\* C20: the sources of a successful Chat are the ranked list of the
\* retrieval, and the context of the prompt is made of one block per
\* returned source, in the order of the response, block i under the marker
\* [i] describing the i-th source: nothing is added, dropped or reordered
\* between retrieval, context and response.
C20_SourcesAreContext ==
    (out.op = "chat" /\ out.http = 200) =>
        /\ out.results =
              RetrieveNormalized(normalizeSearchText(out.query), out.effLimit,
                                 out.threshold, out.env)
        /\ out.messages[Len(out.messages)].content =
              UserHead(out.query) \o SourceBlocksFrom(out.results, 1)

\* a successful chat with two sources or more, one with a caption and one
\* without
C20_Witness ==
    /\ out.op = "chat" /\ out.http = 200
    /\ Len(out.results) >= 2
    /\ \E i, j \in 1..Len(out.results) :
          /\ out.results[i].caption /= << >>
          /\ out.results[j].caption = << >>
          /\ out.results[j].preview /= << >>

\* a successful chat without sources
C20_WitnessNoSources ==
    out.op = "chat" /\ out.http = 200 /\ out.results = << >>

\* a successful chat whose sources were cut to top_k 1
C20_WitnessCut ==
    /\ out.op = "chat" /\ out.http = 200 /\ out.limit = 1
    /\ Len(out.results) = 1 /\ Cardinality(Survivors) >= 2

---------------------------------------------------------------------------
(* Deletion *)

\* the DeleteAsset request has been answered with success
DeleteSucceeded == del.pc = "done" /\ del.resp.http = 200

\* C21: after DeleteAsset has reported success the asset's backing object is
\* not in the object store and the asset has no row in asset_embeddings.
C21_DeleteRemovesObjectAndEmbedding ==
    DeleteSucceeded =>
        /\ del.objectName \notin objects
        /\ del.id \notin DOMAIN embeddings

\* C21, the half that holds: the backing object is gone
C21_ObjectRemoved ==
    DeleteSucceeded => del.objectName \notin objects

\* a successful DeleteAsset of an asset that keeps its embedding row
C21_EmbeddingRemains ==
    /\ DeleteSucceeded
    /\ del.id \in DOMAIN embeddings
    /\ assets[del.id].deleted

---------------------------------------------------------------------------
(* Error responses *)

\* the error codes of the rejections of Upload, by kind of reason
ValidationCodes == {ErrFileUpload, ErrInvalidFileType, ErrFileTooLarge}
DependencyCodes == {ErrMinIO, ErrDB, ErrRedis}

\* Search or Chat has rejected its request
Rejected == out.op \in {"search", "chat"} /\ out.http /= 200

\* C22: every rejected request of Upload, Search and Chat carries an error
\* code apart from its message, and rejections of different kinds carry
\* different codes.
C22_ErrorClassification ==
    /\ \A r \in Reqs :
          (reqs[r].pc = "done" /\ reqs[r].resp.http /= 200) =>
              reqs[r].resp.code \in ValidationCodes \cup DependencyCodes
    /\ Rejected => "code" \in out.fields

\* C22, the part that holds: a rejected Upload carries a code of errno, a
\* validation code with status 400 and a dependency code with status 500
C22_UploadClassified ==
    \A r \in Reqs :
        (reqs[r].pc = "done" /\ reqs[r].resp.http /= 200) =>
            /\ reqs[r].resp.http = 400 => reqs[r].resp.code \in ValidationCodes
            /\ reqs[r].resp.http = 500 => reqs[r].resp.code \in DependencyCodes
            /\ reqs[r].resp.http \in {400, 500}

\* rejections of Search and Chat whose body is a message and nothing else: a
\* failed retrieval, a blank query, a failed synthesis
C22_MessageOnly ==
    /\ Rejected
    /\ out.fields = {"message"}
    /\ out.http \in {400, 500, 502}

\* a Chat rejected for a blank query and one that does not bind are told
\* apart neither by status nor by a code
C22_ChatBlankQuery ==
    out.op = "chat" /\ out.http = 400 /\ out.limit = 1 /\ out.fields = {"message"}

---------------------------------------------------------------------------
(* Scoring *)

\* the vector scores of the request of out, in thousandths
RequestVectors == VectorScores(HasQuery, out.env)

\* the candidates of the request of out
RequestCandidates == DOMAIN RequestScores

\* the normalised lexical score of candidate id for the query of out
RequestLexical(id) ==
    CharScoreNorm(assets[id], normalizeSearchText(out.query),
                  uniqueRunes(normalizeSearchText(out.query)), HasQuery)

\* 0.7 x vector score + 0.3 x lexical score when a vector score exists for
\* the query, the vector score of a candidate without one being 0; the
\* lexical score alone when none exists
Blend(id, vectors) ==
    IF DOMAIN vectors = {} THEN RequestLexical(id)
    ELSE RAdd(RMul(Rat(7, 10),
                   IF id \in DOMAIN vectors
                   THEN Rat(vectors[id], 1000) ELSE Rat(0, 1)),
              RMul(Rat(3, 10), RequestLexical(id)))

\* the final score that follows from Blend: less 0.001 per hour of age,
\* rounded to thousandths
BlendFinal(id, vectors) ==
    RoundMilli(RAdd(Blend(id, vectors),
                    Rat(assets[id].createdAt - out.at, 1000)))

\* the scores of the candidates and of the results follow from Blend, and
\* every vector score is 1 - cosine distance floored at 0, within [0, 1]
HybridLawFor(scores, vectors) ==
    /\ \A id \in DOMAIN scores : scores[id] = BlendFinal(id, vectors)
    /\ \A i \in 1..Len(out.results) :
          out.results[i].score = BlendFinal(out.results[i].id, vectors)
    /\ \A id \in DOMAIN vectors :
          /\ vectors[id] =
                (IF embeddings[id] > 1000 THEN 0 ELSE 1000 - embeddings[id])
          /\ vectors[id] >= 0 /\ vectors[id] <= 1000

\* C23: for every candidate of a non-empty query the score before the
\* recency adjustment is 0.7 x vectorScore + 0.3 x normalizedLexicalScore
\* when at least one vector score exists for the query and the normalised
\* lexical score alone when none exists (seen in the final score, which is
\* that score less the recency term, rounded); every vector score is
\* 1 - cosine distance floored at 0 and lies in [0, 1].
C23_HybridLaw ==
    (Answered /\ HasQuery) => HybridLawFor(RequestScores, RequestVectors)

\* a response whose results include one with a vector score strictly
\* between 0 and 1 and a lexical score above 0
C23_Witness ==
    /\ Answered /\ HasQuery
    /\ \E i \in 1..Len(out.results) :
          /\ out.results[i].id \in DOMAIN RequestVectors
          /\ RequestVectors[out.results[i].id] > 0
          /\ RequestVectors[out.results[i].id] < 1000
          /\ RLess(Rat(0, 1), RequestLexical(out.results[i].id))

\* a response for which no vector score exists
C23_WitnessLexicalOnly ==
    /\ Answered /\ HasQuery /\ Len(out.results) >= 1
    /\ DOMAIN RequestVectors = {}

\* a response for which a cosine distance above 1 was floored to score 0
C23_WitnessFloor ==
    /\ Answered /\ HasQuery
    /\ \E id \in DOMAIN RequestVectors :
          embeddings[id] > 1000 /\ RequestVectors[id] = 0

\* the characters of a text, as a set
Chars(text) == {text[i] : i \in 1..Len(text)}

\* (2 if q is in the combined text) + (1 if q is in the caption) + the
\* share of the distinct non-space characters of q that occur in the
\* combined text, all divided by 3 and capped at 1
LexicalOf(q, text, caption) ==
    RMin(RMul(Rat(((IF Contains(text, q) THEN 2 ELSE 0)
                   + (IF Contains(caption, q) THEN 1 ELSE 0))
                      * Cardinality(Chars(q) \ {" "})
                  + Cardinality((Chars(q) \ {" "}) \cap Chars(text)),
                  Cardinality(Chars(q) \ {" "})),
              Rat(1, 3)),
         Rat(1, 1))

\* the lexical score of candidate id for the query of out, by LexicalOf
ExpectedLexical(id) ==
    LexicalOf(normalizeSearchText(out.query), SearchText(assets[id]),
              normalizeSearchText(assets[id].caption))

\* lexical scores of the candidates cands, and the final scores of the
\* results of a response without vector scores
LexicalLawFor(cands, vectors) ==
    /\ \A i \in 1..Len(cands) :
          /\ RequestLexical(cands[i]) = ExpectedLexical(cands[i])
          /\ ~RLess(RequestLexical(cands[i]), Rat(0, 1))
          /\ ~RLess(Rat(1, 1), RequestLexical(cands[i]))
    /\ DOMAIN vectors = {} =>
          \A i \in 1..Len(out.results) :
              out.results[i].score =
                  RoundMilli(RAdd(ExpectedLexical(out.results[i].id),
                                  Rat(out.results[i].createdAt - out.at, 1000)))

\* C24: for a non-empty normalised query q the normalised lexical score of
\* every candidate is min(((2 if q is a substring of the normalised join of
\* file name, MIME type, caption and content) + (1 if q is a substring of
\* the normalised caption) + (distinct non-space characters of q that occur
\* in the joined text) / (distinct non-space characters of q)) / 3, 1), and
\* it lies in [0, 1].
C24_LexicalScore ==
    (Answered /\ HasQuery) =>
        LexicalLawFor(FetchCandidates(out.env.tie), RequestVectors)

\* a response without vector scores in which one result has the query in
\* its text and its caption and another has only characters of the query
C24_Witness ==
    /\ Answered /\ HasQuery /\ DOMAIN RequestVectors = {}
    /\ \E i, j \in 1..Len(out.results) :
          /\ ExpectedLexical(out.results[i].id) = Rat(1, 1)
          /\ Contains(normalizeSearchText(out.results[i].caption),
                      normalizeSearchText(out.query))
          /\ RLess(Rat(0, 1), ExpectedLexical(out.results[j].id))
          /\ RLess(ExpectedLexical(out.results[j].id), Rat(1, 1))
          /\ ~Contains(SearchText(assets[out.results[j].id]),
                       normalizeSearchText(out.query))

\* a candidate that has none of the query's characters
C24_WitnessNoOverlap ==
    /\ Answered /\ HasQuery
    /\ \E id \in Eligible : ExpectedLexical(id) = Rat(0, 1)

\* a query with a blank inside and a candidate that has its characters but
\* not the query
C24_WitnessBlank ==
    /\ Answered /\ HasQuery
    /\ " " \in Chars(normalizeSearchText(out.query))
    /\ \E id \in Eligible : ExpectedLexical(id) = Rat(1, 3)

\* the normalised lexical score of candidate id for the query of out when
\* the caption bonus is left out
LexicalNoCaptionBonus(id) ==
    RMin(RMul(CharScore(SearchText(assets[id]), << >>,
                        normalizeSearchText(out.query),
                        uniqueRunes(normalizeSearchText(out.query))),
              Rat(1, 3)),
         Rat(1, 1))

\* candidate id has the normalised query of out in its combined text
CombinedHit(id) ==
    Contains(SearchText(assets[id]), normalizeSearchText(out.query))

\* candidate id has the normalised query of out in its normalised caption
CaptionHit(id) ==
    Contains(normalizeSearchText(assets[id].caption),
             normalizeSearchText(out.query))

\* for the candidates cands: a caption hit is a combined-text hit, a
\* combined-text hit has raw score at least 3 and normalised score 1, the
\* caption bonus changes no normalised score, and two candidates with the
\* query in their text have the same lexical score
SubstringLawFor(cands) ==
    /\ \A i \in 1..Len(cands) :
          /\ CaptionHit(cands[i]) => CombinedHit(cands[i])
          /\ CombinedHit(cands[i]) =>
                /\ ~RLess(CharScore(SearchText(assets[cands[i]]),
                                    normalizeSearchText(assets[cands[i]].caption),
                                    normalizeSearchText(out.query),
                                    uniqueRunes(normalizeSearchText(out.query))),
                          Rat(3, 1))
                /\ RequestLexical(cands[i]) = Rat(1, 1)
          /\ RequestLexical(cands[i]) = LexicalNoCaptionBonus(cands[i])
    /\ \A i, j \in 1..Len(cands) :
          (CombinedHit(cands[i]) /\ CombinedHit(cands[j])) =>
              RequestLexical(cands[i]) = RequestLexical(cands[j])

\* C25: whenever the normalised query is a substring of a candidate's
\* normalised combined text the candidate's normalised lexical score is
\* exactly 1: a substring hit has raw score at least 3, a caption hit is a
\* combined-text hit, the caption bonus changes no normalised lexical
\* score, and two candidates that both contain the query have the same
\* lexical score.
C25_SubstringFull ==
    (Answered /\ HasQuery) => SubstringLawFor(FetchCandidates(out.env.tie))

\* a response with a candidate that has the query in its caption, another
\* that has it in its text but not in its caption, and a third without it
C25_Witness ==
    /\ Answered /\ HasQuery
    /\ \E a, b, c \in Eligible :
          /\ CaptionHit(a)
          /\ CombinedHit(b) /\ ~CaptionHit(b)
          /\ ~CombinedHit(c)

\* the query of out is embedded, the vector search answers, and
\* asset_embeddings has a row, whichever asset it belongs to
VectorScoreExists ==
    HasQuery /\ out.env.embed /\ out.env.vecOk /\ DOMAIN embeddings /= {}

\* asset id has no vector score: it has no embedding row, or VectorLimit
\* rows are nearer to the query than its own
NoVectorEntry(id) ==
    \/ id \notin DOMAIN embeddings
    \/ Cardinality({b \in DOMAIN embeddings :
                       \/ embeddings[b] < embeddings[id]
                       \/ /\ embeddings[b] = embeddings[id]
                          /\ TieBefore(out.env.tie, b, id)}) >= VectorLimit

\* the final score of a candidate whose vector score is 0 under the hybrid
\* weighting: 0.3 x lexical score, less the recency term, rounded
LexicalShareFinal(id) ==
    RoundMilli(RAdd(RMul(Rat(3, 10), RequestLexical(id)),
                    Rat(assets[id].createdAt - out.at, 1000)))

\* every candidate without a vector score is scored with 0.3 x its lexical
\* score, which is at most 0.3 before and after the recency term
MissingVectorLawFor(scores) ==
    \A id \in DOMAIN scores :
        NoVectorEntry(id) =>
            /\ scores[id] = LexicalShareFinal(id)
            /\ ~RLess(Rat(3, 10), RMul(Rat(3, 10), RequestLexical(id)))
            /\ scores[id] <= 300 - (out.at - assets[id].createdAt)

\* C26: when at least one vector score exists for the query, a candidate
\* without an entry in the vector-score map (no embedding row, or a row
\* that is not among the nearest ones) is scored with vector score 0, so
\* its score before the recency adjustment is at most 0.3 even on an exact
\* lexical match; the map is built from all embedding rows, so a row of an
\* asset outside the candidate set switches every candidate to the 0.7/0.3
\* weighting.
C26_MissingVectorScore ==
    (Answered /\ VectorScoreExists) => MissingVectorLawFor(RequestScores)

\* the only embedding rows belong to assets outside the candidate set, and
\* a candidate with a lexical score above 0 is scored with 0.3 x that
\* score and not with the score itself
C26_Witness ==
    /\ Answered /\ VectorScoreExists
    /\ DOMAIN embeddings \cap DOMAIN RequestScores = {}
    /\ \E id \in DOMAIN RequestScores :
          /\ RLess(Rat(0, 1), RequestLexical(id))
          /\ RequestScores[id] = LexicalShareFinal(id)
          /\ RequestScores[id] <
                RoundMilli(RAdd(RequestLexical(id),
                                Rat(assets[id].createdAt - out.at, 1000)))

\* a candidate with an exact lexical match has an embedding row that is
\* not among the nearest ones
C26_WitnessBeyondNearest ==
    /\ Answered /\ VectorScoreExists
    /\ \E id \in DOMAIN RequestScores \cap DOMAIN embeddings :
          /\ NoVectorEntry(id)
          /\ RequestLexical(id) = Rat(1, 1)
          /\ RequestScores[id] <= 300

\* the age of asset id at the request of out, in hours
AgeAt(id) == out.at - assets[id].createdAt

\* the vector score of candidate id, 0 when it has none
VectorOf(id, vectors) == IF id \in DOMAIN vectors THEN vectors[id] ELSE 0

\* no result is older than 1000 x (1 - threshold) + 1 hours when the
\* threshold is in (0, 1], and of two candidates with the same lexical and
\* vector scores the older one does not have the higher final score
RecencyLawFor(scores, vectors) ==
    /\ (out.threshold >= 1 /\ out.threshold <= 1000) =>
          \A i \in 1..Len(out.results) :
              AgeAt(out.results[i].id) <= (1000 - out.threshold) + 1
    /\ \A a, b \in DOMAIN scores :
          (/\ RequestLexical(a) = RequestLexical(b)
           /\ VectorOf(a, vectors) = VectorOf(b, vectors)
           /\ AgeAt(a) > AgeAt(b)) => scores[a] <= scores[b]

\* C27: the recency adjustment is subtracted before the threshold filter,
\* so for a non-empty query with threshold t in (0, 1] a candidate created
\* more than 1000 x (1 - t) + 1 hours before the Search call is never
\* returned, whatever its lexical and vector scores; for two candidates
\* with equal lexical and vector scores the older one never has the higher
\* final score.
C27_RecencyBeforeThreshold ==
    (Answered /\ HasQuery) => RecencyLawFor(RequestScores, RequestVectors)

\* a candidate older than the bound is left out although its score before
\* the recency term reaches the threshold, and a younger candidate with the
\* same lexical and vector scores has a higher final score and is returned
C27_Witness ==
    /\ Answered /\ HasQuery
    /\ out.threshold >= 1 /\ out.threshold <= 1000
    /\ \E a, b \in DOMAIN RequestScores :
          /\ AgeAt(a) > (1000 - out.threshold) + 1
          /\ a \notin ResultIds
          /\ RequestScores[a] + AgeAt(a) >= out.threshold
          /\ RequestLexical(a) = RequestLexical(b)
          /\ VectorOf(a, RequestVectors) = VectorOf(b, RequestVectors)
          /\ AgeAt(b) < AgeAt(a)
          /\ RequestScores[b] > RequestScores[a]
          /\ b \in ResultIds

---------------------------------------------------------------------------
(* Reading after DeleteAsset: requests to DeleteAsset, GetAsset, ListAssets, *)
(* Search and Chat in any order against tables the pipeline has filled.      *)

MaxDeleteCalls == 2

\* c.JSON of GetAsset and ListAssets: the response o is written, whatever
\* was answered before
Answer(o) ==
    /\ out' = o
    /\ UNCHANGED <<reqs, issued, objects, removed, assets, tasks, embeddings,
                   queue, pushed, popped, del, now>>

\* AssetResponse of the row of asset id
AssetResponseOf(id, url) ==
    [id |-> id,
     fileName |-> FileName(assets[id].objectName),
     mime |-> assets[id].mime,
     caption |-> assets[id].caption,
     status |-> assets[id].status,
     url |-> url,
     createdAt |-> assets[id].createdAt]

\* c.JSON(status, errno.X) of GetAsset and ListAssets: code and message
ErrOut(op, http, code, id) ==
    [BaseOut(op, http, << >>, 0, 0, NoEnv)
        EXCEPT !.fields = {"code", "message"},
               !.message = [what |-> "errno", status |-> code, body |-> << >>],
               !.first = [at |-> id, tie |-> "asc", results |-> << >>]]

\* GetAsset, lines 182-206: the response for identifier id; urlOk says
\* whether a presigned URL was minted.  first.at names the identifier asked.
GetAssetResponse(id, urlOk) ==
    IF ~Visible(id)
    THEN ErrOut("get", 404, ErrAssetNotFound, id)
    ELSE [BaseOut("get", 200, << >>, 0, 0, NoEnv)
             EXCEPT !.fields = {"id", "file_name", "mime_type", "size_bytes",
                                "caption", "processing_status", "url",
                                "metadata", "created_at"},
                    !.results = <<AssetResponseOf(id, urlOk)>>,
                    !.first = [at |-> id, tie |-> "asc", results |-> << >>]]

\* GetAsset: GET /assets/:id
GetAsset(id, urlOk) == Answer(GetAssetResponse(id, urlOk))

\* parsePositiveInt: the fallback for a parameter that is absent, not a
\* number, or not positive
parsePositiveInt(p, fallback) ==
    IF ~p.given \/ p.v <= 0 THEN fallback ELSE p.v

\* parsePagination: page and per_page, the latter capped at 100
parsePagination(page, perPage) ==
    [page |-> parsePositiveInt(page, 1),
     perPage |-> IF parsePositiveInt(perPage, 20) > 100 THEN 100
                 ELSE parsePositiveInt(perPage, 20)]

\* ListAssets, lines 138-142: the rows of the query, which gorm scopes to
\* rows that are not soft-deleted; status "" is no filter
ListQuery(status) ==
    {id \in DOMAIN assets :
        Visible(id) /\ (status = "" \/ assets[id].status = status)}

\* ListAssets, line 152: Order("created_at DESC").Offset(offset).Limit(perPage)
ListPage(S, tie, offset, perPage) ==
    LET Before(a, b) ==
            \/ assets[a].createdAt > assets[b].createdAt
            \/ assets[a].createdAt = assets[b].createdAt /\ TieBefore(tie, a, b)
        rows == Sorted(S, {p \in S \X S : Before(p[1], p[2])})
    IN SubSeq(rows, offset + 1, Min2(Len(rows), offset + perPage))

\* ListAssets, lines 130-178: the response; effLimit is per_page, limit the
\* page, threshold the total
ListAssetsResponse(status, page, perPage, dbOk, tie) ==
    IF ~dbOk
    THEN ErrOut("list", 500, ErrDB, 0)
    ELSE [BaseOut("list", 200, << >>, parsePagination(page, perPage).page,
                  Cardinality(ListQuery(status)), NoEnv)
             EXCEPT !.fields = {"assets", "total", "page", "per_page"},
                    !.effLimit = parsePagination(page, perPage).perPage,
                    !.results =
                        LET pg == parsePagination(page, perPage)
                            rows == ListPage(ListQuery(status), tie,
                                             (pg.page - 1) * pg.perPage,
                                             pg.perPage)
                        IN [i \in 1..Len(rows) |->
                               AssetResponseOf(rows[i], FALSE)]]

\* ListAssets: GET /assets?page=&per_page=&status=
ListAssets(status, page, perPage, dbOk, tie) ==
    Answer(ListAssetsResponse(status, page, perPage, dbOk, tie))

\* a request to DeleteAsset arrives when none is in progress
DeleteCall(id) ==
    /\ del.pc \in {"idle", "done"}
    /\ del.n < MaxDeleteCalls
    /\ DeleteLookup(id)

\* the tables: two COMPLETED assets that a query for "cat" finds, and
\* assets that are not COMPLETED
DeletePicks ==
    {f \in Picks : f[1] = 1 /\ f[2] = 4 /\ \A i \in AssetIds : f[i] /= 5}

InitDelete ==
    /\ reqs = [r \in Reqs |-> IdleReq]
    /\ issued = AssetIds
    /\ removed = {}
    /\ \E pick \in DeletePicks :
          /\ assets = [id \in AssetIds |-> AssetRow(id, Profiles[pick[id]])]
          /\ objects = {assets[id].objectName : id \in AssetIds}
          /\ embeddings =
                [id \in {i \in AssetIds : Profiles[pick[i]].dist /= NoDist} |->
                    Profiles[pick[id]].dist]
    /\ tasks = << >>
    /\ queue = << >>
    /\ pushed = << >>
    /\ popped = << >>
    /\ del = IdleDel
    /\ now = 0
    /\ out = NoOut

\* what a client asks of ListAssets
ListInputs ==
    [status : {"", StatusCompleted}, page : {NoParam, Param(2)},
     perPage : {NoParam, Param(1)}]

NextDelete ==
    \/ \E id \in KnownIds : DeleteCall(id)
    \/ DeleteObject
    \/ DeleteRow
    \/ \E id \in KnownIds, urlOk \in BOOLEAN : GetAsset(id, urlOk)
    \/ \E i \in ListInputs, dbOk \in BOOLEAN :
          ListAssets(i.status, i.page, i.perPage, dbOk, "asc")
    \/ \E q \in {<< >>, <<"c", "a", "t">>} :
          Answer(SearchResponse(q, NoParam, NoParam, EnvOk))
    \/ Answer(ChatResponse([ok |-> TRUE, query |-> <<"c", "a", "t">>,
                            topK |-> 0, history |-> << >>], EnvOk, LlmOk))

SpecDelete == InitDelete /\ [][NextDelete]_vars

\* the identifiers of the assets in the response o
ReturnedIds(o) == {o.results[i].id : i \in 1..Len(o.results)}

\* the assets that are soft-deleted
Deleted == {id \in DOMAIN assets : assets[id].deleted}

\* a response written in this step returns no deleted asset, and GetAsset
\* for a deleted one answers 404 AssetNotFound
ReadsSkipDeleted ==
    (out' /= out) =>
        /\ ReturnedIds(out') \cap Deleted = {}
        /\ (out'.op = "get" /\ out'.first.at \in Deleted) =>
              /\ out'.http = 404
              /\ out'.message.status = ErrAssetNotFound
              /\ UNCHANGED <<objects, removed, assets, embeddings, tasks,
                             queue, del>>

\* a request to DeleteAsset that arrives in this step for a deleted asset is
\* answered 404 AssetNotFound at once, and nothing else changes
DeleteAgainNotFound ==
    (del'.n = del.n + 1 /\ del'.id \in Deleted) =>
        /\ del'.pc = "done"
        /\ del'.resp = ErrResp(404, ErrAssetNotFound)
        /\ UNCHANGED <<objects, removed, assets, embeddings, tasks, queue,
                       pushed, popped, reqs, issued, now, out>>

C28_WitnessGet ==
    /\ out.op = "get" /\ out.first.at \in Deleted
    /\ out.http = 404 /\ out.message.status = ErrAssetNotFound

\* ListAssets and Chat have answered without a deleted asset that is
\* COMPLETED
C28_WitnessList ==
    /\ out.op = "list" /\ out.http = 200 /\ Len(out.results) >= 1
    /\ \E id \in Deleted : assets[id].status = StatusCompleted

C28_WitnessChat ==
    /\ out.op = "chat" /\ out.http = 200 /\ Len(out.results) = 1
    /\ \E id \in Deleted : assets[id].status = StatusCompleted

\* the object removal of DeleteAsset fails in this step: the object-store
\* error is returned, and rows and objects are as before
RemovalFailureKeepsRow ==
    (del.pc = "remove" /\ del'.pc = "done") =>
        /\ del'.resp = ErrResp(500, ErrMinIO)
        /\ UNCHANGED <<assets, objects, removed>>

\* the row delete of DeleteAsset fails in this step: the database error is
\* returned, the row is as before and visible, and the object stays removed
RowFailureKeepsRow ==
    (del.pc = "row" /\ del'.pc = "done" /\ del'.resp.http /= 200) =>
        /\ del'.resp = ErrResp(500, ErrDB)
        /\ UNCHANGED <<assets, objects, removed>>
        /\ Visible(del.id)
        /\ del.objectName \notin objects'

\* a row is deleted in this step only by the row delete of DeleteAsset, after
\* the removal of its object has succeeded
RowDeletedAfterObject ==
    \A id \in DOMAIN assets :
        (~assets[id].deleted /\ assets'[id].deleted) =>
            /\ del.pc = "row" /\ del.id = id
            /\ assets[id].objectName \in removed
            /\ assets[id].objectName \notin objects
            /\ del'.resp.http = 200

\* GetAsset, ListAssets and Search answer from the row, whether or not its
\* object exists
ReadsIgnoreObject ==
    (out' /= out) =>
        /\ (out'.op = "get" /\ Visible(out'.first.at)) =>
              out'.http = 200 /\ ReturnedIds(out') = {out'.first.at}
        /\ (out'.op = "list" /\ out'.http = 200) =>
              ReturnedIds(out') \subseteq {id \in DOMAIN assets : Visible(id)}
        /\ (out'.op = "list" /\ out'.http = 200 /\ out'.limit = 1
                /\ out'.effLimit = 20) =>
              ReturnedIds(out') \in
                  {{id \in DOMAIN assets : Visible(id)},
                   {id \in DOMAIN assets :
                       Visible(id) /\ assets[id].status = StatusCompleted}}

\* C29: DeleteAsset removes the backing object before it deletes the row and
\* has no rollback: a failed object removal returns the object-store error
\* and leaves the row unchanged; a failed row delete after a successful
\* removal returns the database error and leaves the row visible to
\* GetAsset, ListAssets and Search although its object no longer exists; a
\* row is never deleted while its object removal has not succeeded.
C29_ObjectBeforeRow ==
    [][/\ RemovalFailureKeepsRow
       /\ RowFailureKeepsRow
       /\ RowDeletedAfterObject
       /\ ReadsIgnoreObject]_vars

\* DeleteAsset has returned the database error, the row is visible without
\* its object, and a Search for "cat" returns it
C29_Witness ==
    /\ del.pc = "done" /\ del.resp = ErrResp(500, ErrDB)
    /\ Visible(del.id)
    /\ del.objectName \notin objects /\ del.objectName \in removed
    /\ out.op = "search" /\ out.http = 200 /\ out.query /= << >>
    /\ del.id \in ReturnedIds(out)

\* DeleteAsset has returned the object-store error; row and object remain
C29_WitnessRemovalFailed ==
    /\ del.pc = "done" /\ del.resp = ErrResp(500, ErrMinIO)
    /\ Visible(del.id) /\ del.objectName \in objects

\* GetAsset has answered 200 for a row whose object is removed
C29_WitnessGet ==
    /\ out.op = "get" /\ out.http = 200
    /\ assets[out.first.at].objectName \in removed
    /\ Visible(out.first.at)

---------------------------------------------------------------------------
(* Deletion and the task queue *)

\* every identifier on the queue refers to a visible asset row whose object
\* is stored
QueueRefersToAssets ==
    \A i \in 1..Len(queue) :
        /\ Visible(queue[i])
        /\ assets[queue[i]].objectName \in objects

C30_WitnessDelivered ==
    /\ DeleteSucceeded
    /\ ~Visible(del.id)
    /\ del.objectName \notin objects
    /\ Occ(del.id, popped) = 1
    /\ assets[del.id].status = "PENDING"

=============================================================================
